---- MODULE Spec2Model ----
(***************************************************************************)
(* Model of the generation queue of blog-backend: the gen_jobs and posts   *)
(* tables, the admin plan_queue endpoint and the GenRunner background      *)
(* worker (app/services/runner.py) with the transcript -> article pipeline *)
(* it drives (app/services/video_pipeline.py).                             *)
(*                                                                         *)
(* Strings are modelled by what the code observes of them: a message is a  *)
(* pair <<text id, length>>, a transcript is its number of characters.     *)
(***************************************************************************)
EXTENDS Integers, Sequences, FiniteSets, TLC

\* ----- bounds of the model -------------------------------------------------
MaxJobs == 2
MaxThreads == 2
MaxJobs2R == 1
ShortMsgLen == 40
LongMsgLen == 800
ShortChars == 50
SmallBudget == 8
LargeBudget == 30
ShortRequest == 4
MaxRequests == 2
MaxSources == 2
MaxPosts == 3
MaxLinkPieces == 3
MaxSections == 5
ParagraphLen == 390
MaxFaq == 4
MaxTitleLen == 7
MaxCorpus == 5

\* ----- program constants ---------------------------------------------------
MIN_TRANSCRIPT_CHARS == 200
ErrorLimit == 500
SLUG_MAX == 200
SLUG_MIN == 3
ARTICLE_MIN_SECTIONS == 4
SECTION_BODY_MIN == 400
ENSURE_BODY_MIN == 700
RECOMMENDATIONS_MIN == 420
FILLER_LEN == 156
ARTICLE_FAQ_MIN == 2
ARTICLE_FAQ_MAX == 4
FAQ_ANSWER_MIN == 40
max_same_section == 3
min_same_section == 2
total_limit == 4
SAME_SECTION_QUERY_LIMIT == 8
OTHER_SECTION_QUERY_LIMIT == 4
_now == 1

NULL == 0
NoError == <<>>
\* request URLs as the client writes them: scheme, host as typed, video id
Urls ==
    { [scheme |-> "https", host |-> "youtu.be", vid |-> "a"],
      [scheme |-> "http",  host |-> "YOUTU.BE", vid |-> "a"],
      [scheme |-> "https", host |-> "youtu.be", vid |-> "b"] }
NoUrl == [scheme |-> "", host |-> "", vid |-> ""]
NoKey == <<>>
Runners == {1, 2}
Threads == 1..MaxThreads

VARIABLES
    jobs,                   \* gen_jobs table: row id = index
    posts,                  \* posts table: row id = index
    runners,                \* the GenRunner instances that exist
    runner_on,              \* GenRunner._runner_on
    stop_event,             \* GenRunner._stop_event
    thread,                 \* GenRunner._thread (0 = None)
    wk,                     \* worker threads: position and locals of _run_loop
    openai_settings_ok,     \* environment: get_openai_settings() succeeds
    hist,                   \* per job: what its processing observed (history)
    last_start,             \* runner and result of the last start() call (history)
    awaited,                \* jobs pending when the last start() returned, no stop() since (history)
    poll,                   \* one polling operation: its locals, clock and history
    svc,                    \* generate_and_publish: the request being served
    pub,                    \* slug assignment: Post.slug values and the document in hand
    links,                  \* hyperlink rewriting: the section bodies and the seen set
    repair,                 \* document repair: the sections of the document in hand
    faq,                    \* FAQ sanitising and fallback: input and result
    title,                  \* title trimming: input and result
    recs,                   \* internal recommendations: corpus and selection
    asr                     \* asr_transcribe_raw: variant, clock and outcome

runner_vars == <<jobs, posts, runners, runner_on, stop_event, thread, wk,
                 openai_settings_ok, hist, last_start, awaited>>

\* the variables the queue and its runner never touch
text_vars == <<links, repair, faq, title, recs>>
other_vars == <<poll, svc, pub, text_vars, asr>>

\* what the steps of a poller leave alone
poll_frame == <<runner_vars, svc, pub, text_vars, asr>>

\* what the steps of generate_and_publish leave alone, the posts table apart
svc_frame == <<jobs, runners, runner_on, stop_event, thread, wk,
               openai_settings_ok, hist, last_start, awaited, poll, pub, text_vars, asr>>

\* what the slug assignment leaves alone
pub_frame == <<runner_vars, poll, svc, text_vars, asr>>

\* what the rewriting of the links leaves alone
links_frame == <<runner_vars, poll, svc, pub, repair, faq, title, recs, asr>>

\* what the repair of a document leaves alone
repair_frame == <<runner_vars, poll, svc, pub, links, faq, title, recs, asr>>

\* what the FAQ helpers leave alone
faq_frame == <<runner_vars, poll, svc, pub, links, repair, title, recs, asr>>

\* what the title trimming leaves alone
title_frame == <<runner_vars, poll, svc, pub, links, repair, faq, recs, asr>>

\* what the selection of recommendations leaves alone
recs_frame == <<runner_vars, poll, svc, pub, links, repair, faq, title, asr>>

\* what the ASR fallback leaves alone
asr_frame == <<runner_vars, poll, svc, pub, text_vars>>

vars == <<runner_vars, other_vars>>

Min(a, b) == IF a <= b THEN a ELSE b

\* str(exc)[:500]
Truncate(msg, n) == <<msg[1], Min(msg[2], n)>>

\* ----- rows ----------------------------------------------------------------
\* GenJob(url=url, status="pending") as plan_queue inserts it
NewJob(url) ==
    [url |-> url, status |-> "pending", error |-> NoError, article_id |-> NULL,
     started_at |-> NULL, finished_at |-> NULL]

NewHist == [claimed_by |-> {}, fetch |-> <<>>, writer |-> <<>>, writer_calls |-> 0]

JobIds == 1..Len(jobs)
TerminalStatuses == {"done", "skipped", "failed"}

IdleWorker == [runner |-> 0, pc |-> "unborn", job |-> 0, text |-> 0, post |-> 0]

\* ----- plan_queue ----------------------------------------------------------
\* the "urls" lists of a request body: one or two URLs, repeats allowed
UrlLists == {<<u>> : u \in Urls} \cup {<<p[1], p[2]>> : p \in Urls \X Urls}

\* the validator that runs before the items are parsed: "http://" becomes
\* "https://", a text already seen is dropped, the first occurrence stays
RECURSIVE normalise_from(_, _)
normalise_from(values, seen) ==
    IF values = <<>> THEN <<>>
    ELSE LET text == IF Head(values).scheme = "http"
                     THEN [Head(values) EXCEPT !.scheme = "https"]
                     ELSE Head(values)
         IN  IF text \in seen THEN normalise_from(Tail(values), seen)
             ELSE <<text>> \o normalise_from(Tail(values), seen \cup {text})

normalise_urls(values) == normalise_from(values, {})

\* lower-casing of a host name
LowerHost(h) == IF h = "YOUTU.BE" THEN "youtu.be" ELSE h

\* str(AnyHttpUrl(text)): parsing canonicalises the URL, the host is lower-cased
AnyHttpUrl(text) == [text EXCEPT !.host = LowerHost(text.host)]

\* payload.urls of a validated PlanQueueRequest, as plan_queue reads them
PayloadUrls(values) ==
    LET n == normalise_urls(values) IN [k \in 1..Len(n) |-> AnyHttpUrl(n[k])]

\* _build_source_key of a youtu.be link: "youtube:" + the path without "/"
_build_source_key(url) ==
    IF url = NoUrl THEN NoKey
    ELSE IF LowerHost(url.host) = "youtu.be" THEN <<"youtube", url.vid>>
    ELSE <<"url", url>>

\* existing = URLs of the request that have a pending or running job
ExistingUrls(urls) ==
    {jobs[j].url : j \in {i \in JobIds : /\ jobs[i].status \in {"pending", "running"}
                                         /\ \E k \in 1..Len(urls) : urls[k] = jobs[i].url}}

RECURSIVE PlannedUrls(_, _)
PlannedUrls(urls, existing) ==
    IF urls = <<>> THEN <<>>
    ELSE IF Head(urls) \in existing THEN PlannedUrls(Tail(urls), existing)
         ELSE <<Head(urls)>> \o PlannedUrls(Tail(urls), existing)

\* bound on the rows of gen_jobs: smaller when two runner instances interleave
RowCap == IF Cardinality(runners) > 1 THEN MaxJobs2R ELSE MaxJobs

plan_queue(values) ==
    LET urls == PayloadUrls(values)
        planned == PlannedUrls(urls, ExistingUrls(urls))
    IN  /\ Len(jobs) + Len(planned) <= RowCap
        /\ jobs' = jobs \o [k \in 1..Len(planned) |-> NewJob(planned[k])]
        /\ hist' = hist \o [k \in 1..Len(planned) |-> NewHist]
        /\ UNCHANGED other_vars
        /\ UNCHANGED <<posts, runners, runner_on, stop_event, thread, wk,
                       openai_settings_ok, last_start, awaited>>

\* ----- GenRunner.start / stop ----------------------------------------------
\* history of start(): the jobs that are pending at its return, where the
\* calls are observed
AwaitedAtReturn ==
    IF awaited.observed
    THEN [awaited EXCEPT !.jobs = {j \in JobIds : jobs[j].status = "pending"}]
    ELSE awaited

FreshThread == CHOOSE t \in Threads : wk[t].pc = "unborn" /\ \A s \in Threads : wk[s].pc = "unborn" => t <= s

\* mutant of start: the "if self._runner_on: return False" guard is missing
start_unguarded(r) ==
    /\ r \in runners
    /\ \E t \in Threads : wk[t].pc = "unborn"
    /\ runner_on' = [runner_on EXCEPT ![r] = TRUE]
    /\ stop_event' = [stop_event EXCEPT ![r] = FALSE]
    /\ thread' = [thread EXCEPT ![r] = FreshThread]
    /\ wk' = [wk EXCEPT ![FreshThread] = [IdleWorker EXCEPT !.runner = r, !.pc = "check_stop"]]
    /\ last_start' = <<r, TRUE>>
    /\ awaited' = AwaitedAtReturn
    /\ UNCHANGED other_vars
    /\ UNCHANGED <<jobs, posts, runners, openai_settings_ok, hist>>

start(r) ==
    /\ r \in runners
    /\ IF runner_on[r]
       THEN /\ last_start' = <<r, FALSE>>
            /\ UNCHANGED <<runner_on, stop_event, thread, wk>>
       ELSE /\ \E t \in Threads : wk[t].pc = "unborn"
            /\ runner_on' = [runner_on EXCEPT ![r] = TRUE]
            /\ stop_event' = [stop_event EXCEPT ![r] = FALSE]
            /\ thread' = [thread EXCEPT ![r] = FreshThread]
            /\ wk' = [wk EXCEPT ![FreshThread] = [IdleWorker EXCEPT !.runner = r, !.pc = "check_stop"]]
            /\ last_start' = <<r, TRUE>>
    /\ awaited' = AwaitedAtReturn
    /\ UNCHANGED other_vars
    /\ UNCHANGED <<jobs, posts, runners, openai_settings_ok, hist>>

stop(r) ==
    /\ r \in runners
    /\ IF ~runner_on[r]
       THEN UNCHANGED stop_event
       ELSE stop_event' = [stop_event EXCEPT ![r] = TRUE]
    /\ awaited' = [awaited EXCEPT !.jobs = {}]
    /\ UNCHANGED other_vars
    /\ UNCHANGED <<jobs, posts, runners, runner_on, thread, wk, openai_settings_ok, hist,
                   last_start>>

\* ----- external collaborators: what they may answer ------------------------
TranscriptChars == {ShortChars, MIN_TRANSCRIPT_CHARS}

\* what the transcript provider does for one get_transcript call; "transport"
\* is any SupadataTranscriptError it raises (HTTP or network failure, or the
\* 504 of the polling timeout): the runner treats them all alike
SupadataResponses ==
    {[kind |-> "content", chars |-> n, msg |-> NoError] : n \in TranscriptChars}
    \cup {[kind |-> "transport", chars |-> 0, msg |-> <<"transport", LongMsgLen>>]}

\* what self._supadata_factory() does: returns a client or raises
FactoryOutcomes ==
    {[raised |-> FALSE, msg |-> NoError]}
    \cup {[raised |-> TRUE, msg |-> <<"missing supadata key", LongMsgLen>>]}

\* what generate_article_from_raw meets before the Post is committed: the
\* writer (or prepare/persist) raises ArticleGenerationError or another
\* exception, or the writer returns a payload of some shape
WriterOutcomes ==
    {[kind |-> "generation_error", shape |-> "", msg |-> <<"generation_error", ShortMsgLen>>],
     [kind |-> "exception", shape |-> "", msg |-> <<"exception", LongMsgLen>>]}
    \cup {[kind |-> "payload", shape |-> sh, msg |-> NoError] : sh \in {"article_document", "enhancer_patch"}}

\* SupaDataClient.get_transcript with _build_transcript_result: the text, or
\* an exception (too short content raises SupadataTranscriptTooShortError)
get_transcript(resp) ==
    IF resp.kind = "content"
    THEN IF resp.chars < MIN_TRANSCRIPT_CHARS
         THEN [raised |-> TRUE, chars |-> 0, msg |-> <<"Transcript too short", 20>>]
         ELSE [raised |-> FALSE, chars |-> resp.chars, msg |-> NoError]
    ELSE [raised |-> TRUE, chars |-> 0, msg |-> resp.msg]

\* _fetch_raw_text: the transcript length, or NULL for None
_fetch_raw_text(resp) ==
    LET transcript == get_transcript(resp)
    IN  IF transcript.raised THEN NULL
        ELSE IF transcript.chars < MIN_TRANSCRIPT_CHARS THEN NULL
        ELSE transcript.chars

\* mutant of model_validate: the payload is not validated
model_validate_lax(payload) == payload.shape \in {"article_document", "enhancer_patch"}

\* ArticleDocument.model_validate(payload) succeeds
model_validate(payload) == payload.shape = "article_document"

\* _finalise_job: the row after job.status, error, article_id, finished_at
\* were assigned and committed
_finalise_job(job, status, error, article_id) ==
    [job EXCEPT !.status = status, !.error = error, !.article_id = article_id,
                !.finished_at = _now]

\* mutant of NoTextJob: a job without text is recorded as failed
NoTextJob_failed(job) == _finalise_job(job, "failed", <<"no transcript text", 18>>, NULL)

\* lines 194-197: if not text: _finalise_job(status="skipped", error="no transcript text")
NoTextJob(job) == _finalise_job(job, "skipped", <<"no transcript text", 18>>, NULL)

\* ----- GenRunner worker loop -----------------------------------------------
\* line 141: if self._stop_event.is_set(): break
CheckStop(t) ==
    /\ wk[t].pc = "check_stop"
    /\ wk' = [wk EXCEPT ![t].pc = IF stop_event[wk[t].runner] THEN "mark_done" ELSE "next_pending"]
    /\ UNCHANGED other_vars
    /\ UNCHANGED <<jobs, posts, runners, runner_on, stop_event, thread,
                   openai_settings_ok, hist, last_start, awaited>>

\* mutant of PendingFilter: failed jobs are picked up again
PendingFilter_retry(job) == job.status \in {"pending", "failed"}

\* .filter(GenJob.status == "pending")
PendingFilter(job) == job.status = "pending"

\* _next_pending, the query: oldest pending row or None
FirstPending ==
    LET pending == {j \in JobIds : PendingFilter(jobs[j])}
    IN  IF pending = {} THEN 0
        ELSE CHOOSE j \in pending : \A i \in pending : j <= i

\* mutant of SelectPending: with no pending job the worker polls again
\* instead of leaving the loop
SelectPending_wait(t) ==
    /\ wk[t].pc = "next_pending"
    /\ wk' = [wk EXCEPT ![t].job = FirstPending,
                        ![t].pc = IF FirstPending = 0 THEN "check_stop" ELSE "claim"]
    /\ UNCHANGED other_vars
    /\ UNCHANGED <<jobs, posts, runners, runner_on, stop_event, thread,
                   openai_settings_ok, hist, last_start, awaited>>

SelectPending(t) ==
    /\ wk[t].pc = "next_pending"
    /\ wk' = [wk EXCEPT ![t].job = FirstPending,
                        ![t].pc = IF FirstPending = 0 THEN "mark_done" ELSE "claim"]
    /\ UNCHANGED other_vars
    /\ UNCHANGED <<jobs, posts, runners, runner_on, stop_event, thread,
                   openai_settings_ok, hist, last_start, awaited>>

\* _next_pending, the update: status running, commit
ClaimCommit(t) ==
    /\ wk[t].pc = "claim"
    /\ LET j == wk[t].job
       IN  /\ jobs' = [jobs EXCEPT ![j].status = "running", ![j].error = NoError,
                                   ![j].started_at = _now]
           /\ hist' = [hist EXCEPT ![j].claimed_by = @ \cup {t}]
    /\ wk' = [wk EXCEPT ![t].pc = "fetch"]
    /\ UNCHANGED other_vars
    /\ UNCHANGED <<posts, runners, runner_on, stop_event, thread,
                   openai_settings_ok, last_start, awaited>>

\* _process_job up to the transcript: lines 174-197
FetchTranscript(t) ==
    /\ wk[t].pc = "fetch"
    /\ \E factory \in FactoryOutcomes, resp \in SupadataResponses :
        LET j == wk[t].job
            text == _fetch_raw_text(resp)
        IN  IF jobs[j].url = NoUrl
            THEN /\ jobs' = [jobs EXCEPT ![j].status = "skipped",
                                         ![j].error = <<"missing url", 11>>,
                                         ![j].finished_at = _now]
                 /\ wk' = [wk EXCEPT ![t].pc = "check_stop_after"]
                 /\ UNCHANGED hist
            ELSE IF factory.raised
            THEN /\ jobs' = [jobs EXCEPT ![j] =
                        _finalise_job(@, "failed", Truncate(factory.msg, ErrorLimit), NULL)]
                 /\ hist' = [hist EXCEPT ![j].fetch = <<[kind |-> "factory", chars |-> 0, msg |-> factory.msg]>>]
                 /\ wk' = [wk EXCEPT ![t].pc = "check_stop_after"]
            ELSE IF text = NULL
            THEN /\ jobs' = [jobs EXCEPT ![j] = NoTextJob(@)]
                 /\ hist' = [hist EXCEPT ![j].fetch = <<resp>>]
                 /\ wk' = [wk EXCEPT ![t].pc = "check_stop_after"]
            ELSE /\ hist' = [hist EXCEPT ![j].fetch = <<resp>>]
                 /\ wk' = [wk EXCEPT ![t].text = text, ![t].pc = "generate"]
                 /\ UNCHANGED jobs
    /\ UNCHANGED other_vars
    /\ UNCHANGED <<posts, runners, runner_on, stop_event, thread,
                   openai_settings_ok, last_start, awaited>>

\* _process_job from the generator lookup to the persisted Post or the
\* failure: lines 199-227 with generate_article_from_raw
Generate(t) ==
    /\ wk[t].pc = "generate"
    /\ LET j == wk[t].job
       IN  IF ~openai_settings_ok
           THEN \* get_transcript_generator() raises outside any try block
                /\ wk' = [wk EXCEPT ![t].pc = "mark_done"]
                /\ UNCHANGED <<jobs, posts, hist>>
           ELSE \E w \in WriterOutcomes :
                /\ hist' = [hist EXCEPT ![j].writer = <<w>>, ![j].writer_calls = @ + 1]
                /\ IF w.kind # "payload"
                   THEN /\ jobs' = [jobs EXCEPT ![j] =
                               _finalise_job(@, "failed", Truncate(w.msg, ErrorLimit), NULL)]
                        /\ wk' = [wk EXCEPT ![t].pc = "check_stop_after"]
                        /\ UNCHANGED posts
                   ELSE IF ~model_validate(w)
                   THEN /\ jobs' = [jobs EXCEPT ![j] =
                               _finalise_job(@, "failed",
                                   Truncate(<<"Invalid article payload", LongMsgLen>>, ErrorLimit), NULL)]
                        /\ wk' = [wk EXCEPT ![t].pc = "check_stop_after"]
                        /\ UNCHANGED posts
                   ELSE /\ posts' = Append(posts, [source_url |-> jobs[j].url, job |-> j,
                                                           source_key |-> NoKey])
                        /\ wk' = [wk EXCEPT ![t].post = Len(posts) + 1, ![t].pc = "finalise"]
                        /\ UNCHANGED jobs
    /\ UNCHANGED other_vars
    /\ UNCHANGED <<runners, runner_on, stop_event, thread, openai_settings_ok, last_start, awaited>>

\* lines 229-230: session.refresh(post); _finalise_job(status="done")
FinaliseDone(t) ==
    /\ wk[t].pc = "finalise"
    /\ jobs' = [jobs EXCEPT ![wk[t].job] = _finalise_job(@, "done", NoError, wk[t].post)]
    /\ wk' = [wk EXCEPT ![t].pc = "check_stop_after"]
    /\ UNCHANGED other_vars
    /\ UNCHANGED <<posts, runners, runner_on, stop_event, thread,
                   openai_settings_ok, hist, last_start, awaited>>

\* line 148: if self._stop_event.is_set(): break
CheckStopAfter(t) ==
    /\ wk[t].pc = "check_stop_after"
    /\ wk' = [wk EXCEPT ![t].pc = IF stop_event[wk[t].runner] THEN "mark_done" ELSE "check_stop",
                        ![t].job = 0, ![t].text = 0, ![t].post = 0]
    /\ UNCHANGED other_vars
    /\ UNCHANGED <<jobs, posts, runners, runner_on, stop_event, thread,
                   openai_settings_ok, hist, last_start, awaited>>

\* finally: self._mark_done()
_mark_done(t) ==
    /\ wk[t].pc = "mark_done"
    /\ LET r == wk[t].runner
       IN  /\ runner_on' = [runner_on EXCEPT ![r] = FALSE]
           /\ thread' = [thread EXCEPT ![r] = 0]
           /\ stop_event' = [stop_event EXCEPT ![r] = FALSE]
    /\ wk' = [wk EXCEPT ![t].pc = "exited", ![t].job = 0, ![t].text = 0, ![t].post = 0]
    /\ UNCHANGED other_vars
    /\ UNCHANGED <<jobs, posts, runners, openai_settings_ok, hist, last_start, awaited>>

\* ----- specifications ------------------------------------------------------
\* the calls of start() and stop() are not observed
Unobserved == [observed |-> FALSE, jobs |-> {}]

InitWith(rs) ==
    /\ jobs = <<>>
    /\ posts = <<>>
    /\ runners = rs
    /\ runner_on = [r \in Runners |-> FALSE]
    /\ stop_event = [r \in Runners |-> FALSE]
    /\ thread = [r \in Runners |-> 0]
    /\ wk = [t \in Threads |-> IdleWorker]
    /\ openai_settings_ok \in BOOLEAN    \* OPENAI_REQUEST_TIMEOUT_S numeric or not
    /\ hist = <<>>
    /\ last_start = <<>>
    /\ awaited = Unobserved

\* Python's None, where a text is expected
None == "None"

\* no request being served
IdleSvc ==
    [pc |-> "idle", n |-> 0, video_url |-> NoUrl, research_enabled |-> FALSE,
     research_summary |-> None, research_sources |-> 0, research_failure |-> "",
     writer_called |-> FALSE, writer_result |-> "", writer_research_content |-> None, writer_research_sources |-> 0,
     telemetry |-> [research_attempted |-> FALSE, research_ok |-> FALSE, error_stage |-> None],
     outcome |-> [result |-> "", status |-> 0, post |-> NULL]]

\* no document in hand, no Post stored
IdlePub == [pc |-> "idle", existing |-> {}, desired |-> <<>>, final |-> <<>>, validated |-> FALSE]

\* no polling operation
IdlePoll ==
    [kind |-> "none", pc |-> "ended", clock |-> 0, budget |-> 0, interval |-> 0,
     request_timeout |-> 0, remaining |-> 0, timeout |-> 0,
     outcome |-> [result |-> "", type |-> "", detail |-> ""],
     terminal_seen |-> FALSE, failure_seen |-> FALSE, success_seen |-> FALSE,
     unanswered |-> FALSE,
     late_request |-> FALSE]

\* no text in hand, no ASR call
Idle == [pc |-> "idle"]

IdleText ==
    /\ links = Idle /\ repair = Idle /\ faq = Idle /\ title = Idle /\ recs = Idle
    /\ asr = Idle

\* one GenRunner (get_runner's singleton)
Init == InitWith({1}) /\ poll = IdlePoll /\ svc = IdleSvc /\ pub = IdlePub /\ IdleText

\* two GenRunner instances, each with its own sessions, on the same tables
Init2R == InitWith({1, 2}) /\ poll = IdlePoll /\ svc = IdleSvc /\ pub = IdlePub /\ IdleText

Next ==
    \/ \E urls \in UrlLists : plan_queue(urls)
    \/ \E r \in Runners : start(r)
    \/ \E r \in Runners : stop(r)
    \/ \E t \in Threads : CheckStop(t)
    \/ \E t \in Threads : SelectPending(t)
    \/ \E t \in Threads : ClaimCommit(t)
    \/ \E t \in Threads : FetchTranscript(t)
    \/ \E t \in Threads : Generate(t)
    \/ \E t \in Threads : FinaliseDone(t)
    \/ \E t \in Threads : CheckStopAfter(t)
    \/ \E t \in Threads : _mark_done(t)

Spec == Init /\ [][Next]_vars

Spec2R == Init2R /\ [][Next]_vars

\* one step of the worker thread t
WorkerStep(t) ==
    \/ CheckStop(t)
    \/ SelectPending(t)
    \/ ClaimCommit(t)
    \/ FetchTranscript(t)
    \/ Generate(t)
    \/ FinaliseDone(t)
    \/ CheckStopAfter(t)
    \/ _mark_done(t)

\* a started worker thread keeps running and the calls it makes return
LiveSpec == Spec /\ WF_vars(\E t \in Threads : WorkerStep(t))

\* one GenRunner whose start() and stop() calls are observed
InitObserved ==
    /\ jobs = <<>>
    /\ posts = <<>>
    /\ runners = {1}
    /\ runner_on = [r \in Runners |-> FALSE]
    /\ stop_event = [r \in Runners |-> FALSE]
    /\ thread = [r \in Runners |-> 0]
    /\ wk = [t \in Threads |-> IdleWorker]
    /\ openai_settings_ok = TRUE        \* the worker does not die of a bad setting
    /\ hist = <<>>
    /\ last_start = <<>>
    /\ awaited = [observed |-> TRUE, jobs |-> {}]
    /\ poll = IdlePoll /\ svc = IdleSvc /\ pub = IdlePub /\ IdleText

\* the queue and its runner with the start() calls observed; the worker
\* thread, once spawned, keeps running
SpecObserved == InitObserved /\ [][Next]_vars /\ WF_vars(\E t \in Threads : WorkerStep(t))

\* ===== bounded polling loops ==================================================
\* The three pollers of the integrations: SupaDataClient._poll_transcript_job,
\* ParallelDeepSearchClient.search/_poll_run and OpenAIClient.run_assistant.
\* Time is counted in ticks of half a second; poll.clock is time.monotonic()
\* minus the instant the operation started.

\* 10.0 s
_TRANSCRIPT_REQUEST_TIMEOUT == 20
\* max(1.0, poll_timeout)
MinPollTimeout == 2
\* max(0.1, poll_interval): a tenth of a second, rounded up to one tick
MinPollInterval == 1
\* time.sleep(1.0) of _poll_run
RESEARCH_SLEEP == 2
\* time.sleep(1.5) of run_assistant
WRITER_SLEEP == 3

Max(a, b) == IF a >= b THEN a ELSE b

\* a status string: its letters lower-cased, and whether it was written in
\* capitals; NoStatus is a payload without a status field
NoStatus == [word |-> "", upper |-> FALSE]
StatusWords == {"processing", "completed", "failed", "error", "cancelled", "expired"}
PollStatuses == {NoStatus} \cup [word : StatusWords, upper : BOOLEAN]

\* the literal "w" of the source
Lit(w) == [word |-> w, upper |-> FALSE]

\* status.lower()
lower(status) == [status EXCEPT !.upper = FALSE]

\* what one status request meets: an answer, or a transport failure
PollResponses ==
    [net : {"ok"}, status : PollStatuses, content : BOOLEAN]
    \cup [net : {"timeout", "http_error"}, status : {NoStatus}, content : {FALSE}]

\* how long a request with the given timeout may take
Durations(timeout) == {d \in {0, 1, timeout} : d <= timeout}

\* statuses that end a run: the success value, the failure values, expired
SuccessWords == {"completed"}
FailureWords == {"failed", "error", "cancelled"}
TerminalWords == SuccessWords \cup FailureWords \cup {"expired"}

\* the operation ends: it returns or raises
Ended(result, type, detail) ==
    [poll EXCEPT !.pc = "ended",
                 !.outcome = [result |-> result, type |-> type, detail |-> detail]]

\* history of the answers: what the response r shows
Observed(p, r) ==
    [p EXCEPT !.terminal_seen = @ \/ (r.net = "ok" /\ (\/ lower(r.status).word \in TerminalWords
                                                       \/ (r.status = NoStatus /\ r.content))),
              !.failure_seen = @ \/ (r.net = "ok" /\ lower(r.status).word \in FailureWords),
              !.success_seen = @ \/ (r.net = "ok" /\ (\/ lower(r.status).word \in SuccessWords
                                                      \/ (r.status = NoStatus /\ r.content))),
              !.unanswered = @ \/ r.net # "ok"]

\* ----- SupaDataClient._poll_transcript_job -----------------------------------
StartTranscript(poll_timeout, poll_interval) ==
    [IdlePoll EXCEPT !.kind = "transcript", !.pc = "check",
                     !.budget = Max(MinPollTimeout, poll_timeout),
                     !.interval = Max(MinPollInterval, poll_interval),
                     !.request_timeout = _TRANSCRIPT_REQUEST_TIMEOUT]

\* loop head: remaining = deadline - time.monotonic()
TranscriptCheck ==
    /\ poll.kind = "transcript" /\ poll.pc = "check"
    /\ LET remaining == poll.budget - poll.clock
       IN  IF remaining <= 0
           THEN poll' = Ended("raise", "SupadataTranscriptError", "timeout")
           ELSE poll' = [poll EXCEPT !.pc = "request", !.remaining = remaining,
                                     !.timeout = Min(_TRANSCRIPT_REQUEST_TIMEOUT, remaining),
                                     !.late_request = @ \/ poll.clock >= poll.budget]
    /\ UNCHANGED poll_frame

\* the GET of the job and the branches on its payload
TranscriptRequest ==
    /\ poll.kind = "transcript" /\ poll.pc = "request"
    /\ \E d \in Durations(poll.timeout), r \in PollResponses :
         LET p == Observed([poll EXCEPT !.clock = @ + d], r)
             lowered == lower(r.status)
             done == [p EXCEPT !.pc = "ended"]
         IN  /\ r.net = "timeout" => d = poll.timeout
             /\ poll' =
                  IF r.net # "ok"
                  THEN [done EXCEPT !.outcome = [result |-> "raise", type |-> "SupadataTranscriptError",
                                                 detail |-> "transport"]]
                  ELSE IF r.status # NoStatus /\ lowered = Lit("completed")
                  THEN [done EXCEPT !.outcome = [result |-> "return", type |-> "payload", detail |-> ""]]
                  ELSE IF r.status # NoStatus /\ lowered = Lit("failed")
                  THEN [done EXCEPT !.outcome = [result |-> "raise", type |-> "SupadataTranscriptError",
                                                 detail |-> "upstream"]]
                  ELSE IF r.content
                  THEN [done EXCEPT !.outcome = [result |-> "return", type |-> "payload", detail |-> ""]]
                  ELSE [p EXCEPT !.pc = "sleep"]
    /\ UNCHANGED poll_frame

\* sleep_for = min(poll_interval, max(0.0, remaining))
TranscriptSleep ==
    /\ poll.kind = "transcript" /\ poll.pc = "sleep"
    /\ poll' = [poll EXCEPT !.clock = @ + Min(poll.interval, Max(0, poll.remaining)),
                            !.pc = "check"]
    /\ UNCHANGED poll_frame

\* ----- ParallelDeepSearchClient.search and _poll_run --------------------------
StartResearch(timeout_s) ==
    [IdlePoll EXCEPT !.kind = "research", !.pc = "create", !.budget = timeout_s,
                     !.interval = RESEARCH_SLEEP, !.request_timeout = timeout_s]

\* _create_task_run: the POST, after started_at was taken
ResearchCreate ==
    /\ poll.kind = "research" /\ poll.pc = "create"
    /\ \E d \in Durations(poll.request_timeout), net \in {"ok", "http_error"} :
         LET p == [poll EXCEPT !.clock = @ + d]
         IN  poll' = IF net = "ok" THEN [p EXCEPT !.pc = "check"]
                     ELSE [p EXCEPT !.pc = "ended", !.unanswered = TRUE,
                                    !.outcome = [result |-> "raise", type |-> "DeepSearchError",
                                                 detail |-> "transport"]]
    /\ UNCHANGED poll_frame

\* loop head: elapsed >= self._timeout
ResearchCheck ==
    /\ poll.kind = "research" /\ poll.pc = "check"
    /\ IF poll.clock >= poll.budget
       THEN poll' = Ended("raise", "DeepSearchError", "timeout")
       ELSE poll' = [poll EXCEPT !.pc = "request", !.timeout = poll.request_timeout,
                                 !.late_request = @ \/ poll.clock >= poll.budget]
    /\ UNCHANGED poll_frame

ResearchRequest ==
    /\ poll.kind = "research" /\ poll.pc = "request"
    /\ \E d \in Durations(poll.timeout), r \in PollResponses :
         LET p == Observed([poll EXCEPT !.clock = @ + d], r)
             status_value == lower(r.status)
             done == [p EXCEPT !.pc = "ended"]
         IN  /\ r.net = "timeout" => d = poll.timeout
             /\ poll' =
                  IF r.net # "ok"
                  THEN [done EXCEPT !.outcome = [result |-> "raise", type |-> "DeepSearchError",
                                                 detail |-> "transport"]]
                  ELSE IF status_value \in {Lit("completed"), Lit("succeeded"), Lit("success"),
                                            Lit("finished")}
                  THEN [done EXCEPT !.outcome = [result |-> "return", type |-> "data", detail |-> ""]]
                  ELSE IF status_value \in {Lit("failed"), Lit("error"), Lit("cancelled")}
                  THEN [done EXCEPT !.outcome = [result |-> "raise", type |-> "DeepSearchError",
                                                 detail |-> "upstream"]]
                  ELSE [p EXCEPT !.pc = "sleep"]
    /\ UNCHANGED poll_frame

ResearchSleep ==
    /\ poll.kind = "research" /\ poll.pc = "sleep"
    /\ poll' = [poll EXCEPT !.clock = @ + RESEARCH_SLEEP, !.pc = "check"]
    /\ UNCHANGED poll_frame

\* ----- OpenAIClient.run_assistant ---------------------------------------------
StartWriter(timeout_s, request_timeout_s) ==
    [IdlePoll EXCEPT !.kind = "writer", !.pc = "create", !.budget = timeout_s,
                     !.interval = WRITER_SLEEP, !.request_timeout = request_timeout_s]

\* runs.create, after start was taken
WriterCreate ==
    /\ poll.kind = "writer" /\ poll.pc = "create"
    /\ \E d \in Durations(poll.request_timeout), net \in {"ok", "http_error"} :
         LET p == [poll EXCEPT !.clock = @ + d]
         IN  poll' = IF net = "ok" THEN [p EXCEPT !.pc = "check"]
                     ELSE [p EXCEPT !.pc = "ended", !.unanswered = TRUE,
                                    !.outcome = [result |-> "raise", type |-> "OpenAITransportError",
                                                 detail |-> "transport"]]
    /\ UNCHANGED poll_frame

\* loop head: time.monotonic() >= deadline
WriterCheck ==
    /\ poll.kind = "writer" /\ poll.pc = "check"
    /\ IF poll.clock >= poll.budget
       THEN poll' = Ended("raise", "OpenAIRunTimeout", "timeout")
       ELSE poll' = [poll EXCEPT !.pc = "request", !.timeout = poll.request_timeout,
                                 !.late_request = @ \/ poll.clock >= poll.budget]
    /\ UNCHANGED poll_frame

\* runs.retrieve, the break on a final status and the check after the loop
WriterRequest ==
    /\ poll.kind = "writer" /\ poll.pc = "request"
    /\ \E d \in Durations(poll.timeout), r \in PollResponses :
         LET p == Observed([poll EXCEPT !.clock = @ + d], r)
             done == [p EXCEPT !.pc = "ended"]
         IN  /\ r.net = "timeout" => d = poll.timeout
             /\ poll' =
                  IF r.net # "ok"
                  THEN [done EXCEPT !.outcome = [result |-> "raise", type |-> "OpenAITransportError",
                                                 detail |-> "transport"]]
                  ELSE IF r.status \in {Lit("completed"), Lit("failed"), Lit("cancelled"),
                                        Lit("expired")}
                  THEN IF r.status # Lit("completed")
                       THEN [done EXCEPT !.outcome = [result |-> "raise", type |-> "OpenAIRunFailed",
                                                      detail |-> "upstream"]]
                       ELSE [done EXCEPT !.outcome = [result |-> "return", type |-> "text",
                                                      detail |-> ""]]
                  ELSE [p EXCEPT !.pc = "sleep"]
    /\ UNCHANGED poll_frame

WriterSleep ==
    /\ poll.kind = "writer" /\ poll.pc = "sleep"
    /\ poll' = [poll EXCEPT !.clock = @ + WRITER_SLEEP, !.pc = "check"]
    /\ UNCHANGED poll_frame

\* ----- specification of the pollers -------------------------------------------
\* poll_timeout and poll_interval of get_transcript, in ticks
PollTimeouts == {1, SmallBudget, LargeBudget}
PollIntervals == {1, 10}

PollStarts ==
    {StartTranscript(pt, pi) : pt \in PollTimeouts, pi \in PollIntervals}
    \cup {StartResearch(SmallBudget)}
    \cup {StartWriter(SmallBudget, r) : r \in {ShortRequest, SmallBudget}}

InitPoll == InitWith({1}) /\ poll \in PollStarts /\ svc = IdleSvc /\ pub = IdlePub /\ IdleText

NextPoll ==
    \/ TranscriptCheck \/ TranscriptRequest \/ TranscriptSleep
    \/ ResearchCreate \/ ResearchCheck \/ ResearchRequest \/ ResearchSleep
    \/ WriterCreate \/ WriterCheck \/ WriterRequest \/ WriterSleep

SpecPoll == InitPoll /\ [][NextPoll]_vars

\* ===== GeneratedArticleService.generate_and_publish ============================

\* what the research client provider does: a client, or an exception
ProviderOutcomes == {"client", "DeepSearchError", "Exception"}

\* what client.search does: a result (possibly None, possibly with an empty
\* summary or without sources) or an exception
SearchOutcomes ==
    [kind : {"result"}, summary : {None, "", "Research summary"}, sources : 0..MaxSources]
    \cup {[kind |-> k, summary |-> None, sources |-> 0] : k \in {"none", "DeepSearchError", "Exception"}}

\* what the synchronous transcript fetch does
SvcTranscriptOutcomes == {"text", "too_short", "SupadataTranscriptError", "Exception"}

\* what the writer call and the validation of its payload give
SvcWriterOutcomes == {"document", "invalid_payload", "ArticleGenerationError"}

\* _normalize_research_result
_normalize_research_result(result) ==
    IF result.kind = "none" THEN [summary |-> None, sources |-> 0]
    ELSE [summary |-> IF result.summary = "" THEN None ELSE result.summary,
          sources |-> result.sources]

\* _find_post_by_source_key: id of the newest Post with that meta.source_key, or NULL
_find_post_by_source_key(source_key) ==
    LET found == {p \in 1..Len(posts) : posts[p].source_key = source_key}
    IN  IF found = {} THEN NULL ELSE CHOOSE p \in found : \A q \in found : q <= p

\* raise HTTPException(status_code=...) leaving generate_and_publish
SvcRaise(s, status, stage) ==
    [s EXCEPT !.pc = "ended", !.telemetry.error_stage = stage,
              !.outcome = [result |-> "raise", status |-> status, post |-> NULL]]

\* return ArticlePublishResponse(slug=post.slug, id=post.id, ...)
SvcReturn(s, post) ==
    [s EXCEPT !.pc = "ended", !.outcome = [result |-> "return", status |-> 201, post |-> post]]

\* entry of generate_and_publish up to the dedup lookup: a request with a
\* video URL (transcript mode) or without one (topic mode)
SvcRequest(video_url, configured) ==
    /\ svc.pc \in {"idle", "ended"}
    /\ svc.n < MaxRequests
    /\ LET s == [IdleSvc EXCEPT !.pc = "begin", !.n = svc.n + 1, !.video_url = video_url,
                                !.research_enabled = svc.research_enabled]
           after == IF s.research_enabled THEN "research_provider" ELSE "writer"
           source_key == _build_source_key(video_url)
           existing_post == IF source_key = NoKey THEN NULL
                            ELSE _find_post_by_source_key(source_key)
       IN  svc' = IF ~configured THEN SvcRaise(s, 503, "writer")
                  ELSE IF video_url = NoUrl THEN [s EXCEPT !.pc = after]
                  ELSE IF existing_post # NULL THEN SvcReturn(s, existing_post)
                  ELSE [s EXCEPT !.pc = "transcript"]
    /\ UNCHANGED svc_frame
    /\ UNCHANGED posts

\* supadata_provider() and get_transcript of the video path
SvcTranscript ==
    /\ svc.pc = "transcript"
    /\ \E o \in SvcTranscriptOutcomes, status \in {422, 503} :
         svc' = IF o = "text"
                THEN [svc EXCEPT !.pc = IF svc.research_enabled THEN "research_provider"
                                        ELSE "writer"]
                ELSE IF o = "too_short" THEN SvcRaise(svc, 422, "writer")
                ELSE IF o = "SupadataTranscriptError" THEN SvcRaise(svc, status, "writer")
                ELSE SvcRaise(svc, 503, "writer")
    /\ UNCHANGED svc_frame
    /\ UNCHANGED posts

\* mutant of ResearchFailed: the exception leaves _run_research
ResearchFailed_fatal(s, where) ==
    [SvcRaise(s, 502, "research") EXCEPT !.research_failure = where]

\* the except branches of _run_research: log and return (None, [])
ResearchFailed(s, where) ==
    [s EXCEPT !.pc = "writer", !.research_summary = None, !.research_sources = 0,
              !.research_failure = where,
              !.telemetry.research_ok = FALSE,
              !.telemetry.error_stage = IF @ = None THEN "research" ELSE @]

\* _run_research: client = provider()
SvcResearchProvider ==
    /\ svc.pc = "research_provider"
    /\ \E o \in ProviderOutcomes :
         svc' = IF o = "client"
                THEN [svc EXCEPT !.pc = "research_search", !.telemetry.research_attempted = TRUE]
                ELSE ResearchFailed(svc, "provider")
    /\ UNCHANGED svc_frame
    /\ UNCHANGED posts

\* _run_research: result = client.search(title=topic, lead=prompt)
SvcResearchSearch ==
    /\ svc.pc = "research_search"
    /\ \E result \in SearchOutcomes :
         svc' = IF result.kind \in {"DeepSearchError", "Exception"}
                THEN ResearchFailed(svc, "search")
                ELSE LET n == _normalize_research_result(result)
                     IN  [svc EXCEPT !.pc = "writer", !.research_summary = n.summary,
                                     !.research_sources = n.sources,
                                     !.telemetry.research_ok = TRUE]
    /\ UNCHANGED svc_frame
    /\ UNCHANGED posts

\* the writer call with the research arguments, validation, preparation and
\* persist_article_document
SvcWriter ==
    /\ svc.pc = "writer"
    /\ \E o \in SvcWriterOutcomes :
         LET s == [svc EXCEPT !.writer_called = TRUE, !.writer_result = o,
                              !.writer_research_content = svc.research_summary,
                              !.writer_research_sources = svc.research_sources]
         IN  IF o = "document"
             THEN /\ posts' = Append(posts, [source_url |-> svc.video_url, job |-> 0,
                                             source_key |-> _build_source_key(svc.video_url)])
                  /\ svc' = SvcReturn(s, Len(posts) + 1)
             ELSE /\ svc' = SvcRaise(s, 502, "writer")
                  /\ UNCHANGED posts
    /\ UNCHANGED svc_frame

\* ----- specification of the service ---------------------------------------------
\* video_url of a request: none (topic mode) or a canonical URL
SvcUrls == {NoUrl} \cup {AnyHttpUrl(u) : u \in Urls}

InitSvc ==
    /\ InitWith({1})
    /\ poll = IdlePoll
    /\ svc \in {[IdleSvc EXCEPT !.research_enabled = e] : e \in BOOLEAN}
    /\ pub = IdlePub
    /\ IdleText

NextSvc ==
    \/ \E u \in SvcUrls, c \in BOOLEAN : SvcRequest(u, c)
    \/ SvcTranscript
    \/ SvcResearchProvider
    \/ SvcResearchSearch
    \/ SvcWriter

SpecSvc == InitSvc /\ [][NextSvc]_vars

\* ===== slug assignment of prepare_document_for_publication ====================
\* A text is a sequence of runs [ch, n]: n times the character ch, adjacent
\* runs having different characters. Empty is the empty string.
Empty == <<>>
Run(ch, n) == [ch |-> ch, n |-> n]
TextLen(t) == LET RECURSIVE Sum(_)
                  Sum(s) == IF s = <<>> THEN 0 ELSE Head(s).n + Sum(Tail(s))
              IN  Sum(t)

\* "a~" and "A~" stand for the letter a with ogonek, small and capital
\* characters that are not in [a-z0-9] once lower-cased and transliterated
NonAlnum == {"-", " ", "!"}

\* value.lower().translate(translation_map), one character
Translate(ch) == IF ch \in {"A", "a~", "A~"} THEN "a" ELSE ch

\* joins adjacent runs of the same character
RECURSIVE Merge(_)
Merge(t) ==
    IF Len(t) <= 1 THEN t
    ELSE IF t[1].ch = t[2].ch
         THEN Merge(<<Run(t[1].ch, t[1].n + t[2].n)>> \o SubSeq(t, 3, Len(t)))
         ELSE <<t[1]>> \o Merge(Tail(t))

\* value[:k]
RECURSIVE Take(_, _)
Take(t, k) ==
    IF t = <<>> \/ k <= 0 THEN <<>>
    ELSE IF t[1].n <= k THEN <<t[1]>> \o Take(Tail(t), k - t[1].n)
         ELSE <<Run(t[1].ch, k)>>

\* value.strip("-")
Strip(t) ==
    LET a == IF t # <<>> /\ t[1].ch = "-" THEN Tail(t) ELSE t
    IN  IF a # <<>> /\ a[Len(a)].ch = "-" THEN SubSeq(a, 1, Len(a) - 1) ELSE a

slugify_pl(value) ==
    LET lowered == [i \in 1..Len(value) |-> Run(Translate(value[i].ch), value[i].n)]
        dashed == Merge([i \in 1..Len(lowered) |->
                            IF lowered[i].ch \in NonAlnum THEN Run("-", lowered[i].n)
                            ELSE lowered[i]])
        single == [i \in 1..Len(dashed) |->
                      IF dashed[i].ch = "-" THEN Run("-", 1) ELSE dashed[i]]
    IN  Take(Strip(single), SLUG_MAX)

\* f"{base}-{index}"
Candidate(base, index) == Merge(base \o <<Run("-", 1), Run(ToString(index), 1)>>)

RECURSIVE NextFree(_, _, _)
NextFree(existing, base, index) ==
    IF Candidate(base, index) \in existing THEN NextFree(existing, base, index + 1)
    ELSE Candidate(base, index)

\* mutant of ensure_unique_slug: the while loop is missing
ensure_unique_slug_once(existing, desired_slug) ==
    IF desired_slug \notin existing THEN desired_slug ELSE Candidate(desired_slug, 2)

ensure_unique_slug(existing, desired_slug) ==
    IF desired_slug \notin existing THEN desired_slug
    ELSE NextFree(existing, desired_slug, 2)

\* Python's "a or b" on strings
Or(a, b) == IF a # Empty THEN a ELSE b

\* the literal "artykul"
Artykul == <<Run("a", 1), Run("r", 1), Run("t", 1), Run("y", 1), Run("k", 1), Run("u", 1),
             Run("l", 1)>>

\* the pattern ^[a-z0-9-]{3,200}$ of ArticleDocument.slug
SlugPattern(slug) ==
    /\ \A i \in 1..Len(slug) : slug[i].ch \notin {"A", "a~", "A~", " ", "!"}
    /\ TextLen(slug) >= SLUG_MIN
    /\ TextLen(slug) <= SLUG_MAX

\* desired_slug of prepare_document_for_publication
DesiredSlug(doc) ==
    LET desired_slug_source == Or(doc.slug, Or(doc.seo_slug, Or(doc.seo_title, doc.fallback_topic)))
        desired_slug == slugify_pl(desired_slug_source)
    IN  IF desired_slug = Empty THEN Or(slugify_pl(doc.fallback_topic), Artykul)
        ELSE desired_slug

\* slugs of the documents handed to prepare_document_for_publication
DocSlugs ==
    { Empty,
      <<Run("a", 3)>>,
      <<Run("a", SLUG_MAX)>>,
      <<Run("a", 1), Run("-", 2)>>,
      <<Run("-", 3)>>,
      <<Run("a", 3), Run("-", 1), Run("2", 1)>> }

SeoSlugs == {Empty, <<Run("b", 3)>>}

\* seo.title, shorter than the title limit
SeoTitles == {<<Run(" ", 3)>>, <<Run("A~", 1), Run("b", 2), Run(" ", 2), Run("A", 1)>>}

FallbackTopics == {<<Run("a", 1), Run("b", 1), Run("!", 3)>>, <<Run("!", 5)>>}

Documents ==
    [slug : DocSlugs, seo_slug : SeoSlugs, seo_title : SeoTitles, fallback_topic : FallbackTopics]

\* prepare_document_for_publication up to the returned document: the slug
\* survives _validate_or_construct_document whether or not it validates
prepare_document_for_publication(doc) ==
    /\ pub.pc = "idle"
    /\ Cardinality(pub.existing) < MaxPosts
    /\ LET desired_slug == DesiredSlug(doc)
           final_slug == ensure_unique_slug(pub.existing, desired_slug)
       IN  pub' = [pub EXCEPT !.pc = "prepared", !.desired = desired_slug,
                              !.final = final_slug, !.validated = SlugPattern(final_slug)]
    /\ UNCHANGED pub_frame

\* persist_article_document: Post(slug=document.slug, ...) is committed
persist_article_document ==
    /\ pub.pc = "prepared"
    /\ pub' = [pub EXCEPT !.pc = "idle", !.existing = @ \cup {pub.final}]
    /\ UNCHANGED pub_frame

InitPub == InitWith({1}) /\ poll = IdlePoll /\ svc = IdleSvc /\ pub = IdlePub /\ IdleText

NextPub ==
    \/ \E doc \in Documents : prepare_document_for_publication(doc)
    \/ persist_article_document

SpecPub == InitPub /\ [][NextPub]_vars

\* ----- source links: one hyperlink per URL ------------------------------------
\* A body is a sequence of pieces of text.  A piece is a plain word, a bare URL,
\* a markdown link [label](url) whose label is itself a piece of text, or a URL
\* without its scheme.  A URL is written as it stands in the text; "E.com" is the
\* host in another case, slash a trailing "/", frag a "#fragment".
LinkUrls ==
    { [host |-> "e.com", path |-> "p", slash |-> FALSE, frag |-> FALSE],
      [host |-> "E.com", path |-> "p", slash |-> TRUE, frag |-> TRUE],
      [host |-> "e.com", path |-> "q", slash |-> FALSE, frag |-> FALSE] }

\* n characters of text without a URL
Text(n) == [t |-> "word", n |-> n]
Word == Text(1)
Bare(u) == [t |-> "bare", url |-> u]
Md(label, u) == [t |-> "md", label |-> label, url |-> u]

\* the labels a markdown link carries: a word, or the address written out
LinkLabels(u) == {Word, Bare(u)}

Pieces ==
    {Word} \cup {Bare(u) : u \in LinkUrls}
           \cup UNION {{Md(l, u) : l \in LinkLabels(u)} : u \in LinkUrls}

\* hostname lower-cased, trailing slash of the path and the fragment dropped
normalize_url(u) ==
    [u EXCEPT !.host = IF u.host = "E.com" THEN "e.com" ELSE u.host,
              !.slash = FALSE, !.frag = FALSE]

\* re.sub(r"^https?://", "", url): text the URL patterns no longer match
_strip_scheme(u) == [t |-> "noscheme", url |-> u]

\* the pieces _COMBINED_PATTERN.finditer matches: markdown links and bare URLs
IsMatch(piece) == piece.t \in {"md", "bare"}

RECURSIVE extract_urls(_)
extract_urls(text) ==
    IF text = <<>> THEN <<>>
    ELSE LET piece == Head(text)
         IN  (IF IsMatch(piece) THEN <<piece.url>> ELSE <<>>)
                 \o extract_urls(Tail(text))

\* the replacement of one match, given the URLs seen before it
Replacement(piece, seen) ==
    IF normalize_url(piece.url) \in seen
    THEN IF piece.t = "md" THEN piece.label ELSE _strip_scheme(piece.url)
    ELSE piece

\* the text with every match replaced, given the URLs seen before it
RECURSIVE RewriteText(_, _)
RewriteText(text, seen) ==
    IF text = <<>> THEN <<>>
    ELSE LET piece == Head(text)
         IN  IF IsMatch(piece)
             THEN <<Replacement(piece, seen)>>
                      \o RewriteText(Tail(text), seen \cup {normalize_url(piece.url)})
             ELSE <<piece>> \o RewriteText(Tail(text), seen)

\* seen_normalized after the text: the URLs of its matches added
SeenAfter(text, seen) ==
    seen \cup {normalize_url(text[i].url) : i \in {k \in 1..Len(text) : IsMatch(text[k])}}

enforce_single_hyperlink_per_url(text, seen) ==
    [text |-> RewriteText(text, seen), seen |-> SeenAfter(text, seen)]

\* the section bodies rewritten in order, the seen set carried from one to the next
RECURSIVE RewriteBodies(_, _)
RewriteBodies(bodies, seen_urls) ==
    IF bodies = <<>> THEN <<>>
    ELSE <<enforce_single_hyperlink_per_url(Head(bodies), seen_urls).text>>
             \o RewriteBodies(Tail(bodies),
                              enforce_single_hyperlink_per_url(Head(bodies), seen_urls).seen)

RECURSIVE Flatten(_)
Flatten(bodies) ==
    IF bodies = <<>> THEN <<>> ELSE Head(bodies) \o Flatten(Tail(bodies))

RECURSIVE dedupe_preserve_order(_, _)
dedupe_preserve_order(urls, seen) ==
    IF urls = <<>> THEN <<>>
    ELSE LET normalized == normalize_url(Head(urls))
         IN  IF normalized \in seen THEN dedupe_preserve_order(Tail(urls), seen)
             ELSE <<normalized>> \o dedupe_preserve_order(Tail(urls), seen \cup {normalized})

\* _rewrite_sections_with_single_links(article_data)
_rewrite_sections_with_single_links ==
    /\ links.pc = "input"
    /\ LET sanitized_sections == RewriteBodies(links.sections, {})
       IN  links' = [links EXCEPT !.pc = "rewritten",
                                  !.sanitized_sections = sanitized_sections,
                                  !.body_urls = dedupe_preserve_order(
                                       extract_urls(Flatten(sanitized_sections)), {})]
    /\ UNCHANGED links_frame

\* the bodies of a document: up to max pieces, in one section or two
LinkTexts(max) == UNION {[1..n -> Pieces] : n \in 0..max}

LinkDocuments(max) ==
    {<<text>> : text \in LinkTexts(max)}
    \cup UNION {{<<SubSeq(text, 1, k), SubSeq(text, k + 1, Len(text))>> :
                     k \in 0..Len(text)} : text \in LinkTexts(max)}

InitLinks ==
    /\ InitWith({1}) /\ poll = IdlePoll /\ svc = IdleSvc /\ pub = IdlePub
    /\ links \in {[pc |-> "input", sections |-> d, sanitized_sections |-> <<>>,
                   body_urls |-> <<>>] : d \in LinkDocuments(MaxLinkPieces)}
    /\ repair = Idle /\ faq = Idle /\ title = Idle /\ recs = Idle /\ asr = Idle

NextLinks == _rewrite_sections_with_single_links

SpecLinks == InitLinks /\ [][NextLinks]_vars

\* ----- document repair: section floors and the sources section ------------------
\* the length of a URL as written: "https://e.com/p" plus "/" and "#f"
UrlLen(u) == 15 + (IF u.slash THEN 1 ELSE 0) + (IF u.frag THEN 2 ELSE 0)

\* len() of one piece of text; "[label](url)" adds four characters of markup
PieceLen(piece) ==
    CASE piece.t = "word" -> piece.n
      [] piece.t = "bare" -> UrlLen(piece.url)
      [] piece.t = "noscheme" -> UrlLen(piece.url) - 8
      [] piece.t = "md" ->
             (IF piece.label.t = "word" THEN piece.label.n ELSE UrlLen(piece.label.url))
                 + UrlLen(piece.url) + 4

\* len(body): the pieces and one space between neighbours
RECURSIVE BodyLen(_)
BodyLen(text) ==
    IF text = <<>> THEN 0
    ELSE PieceLen(Head(text)) + (IF Len(text) > 1 THEN 1 ELSE 0) + BodyLen(Tail(text))

\* a section title: its letters, whether some are upper case, whether it has
\* blanks around it; z'ro'dl'a is the word with the Polish diacritics
SectionTitle(word, cased, padded) == [word |-> word, cased |-> cased, padded |-> padded]

\* str(title).strip().casefold()
casefold_stripped(t) == [t EXCEPT !.cased = FALSE, !.padded = FALSE]

SOURCE_SECTION_TITLES ==
    {SectionTitle("z'ro'dl'a", FALSE, FALSE), SectionTitle("zrodla", FALSE, FALSE)}

IsSourcesTitle(t) == casefold_stripped(t) \in SOURCE_SECTION_TITLES

\* "Zrodla" with the diacritics, the title of an appended section
ZrodlaTitle == SectionTitle("z'ro'dl'a", TRUE, FALSE)

\* f"Sekcja {n}"
SekcjaTitle == SectionTitle("sekcja", TRUE, FALSE)

Section(t, body) == [title |-> t, body |-> body]

\* apply_sources_presentation: the bodies rewritten in order, the titles kept
RECURSIVE RewriteSections(_, _)
RewriteSections(sections, seen_urls) ==
    IF sections = <<>> THEN <<>>
    ELSE <<Section(Head(sections).title,
                   enforce_single_hyperlink_per_url(Head(sections).body, seen_urls).text)>>
             \o RewriteSections(Tail(sections),
                    enforce_single_hyperlink_per_url(Head(sections).body, seen_urls).seen)

apply_sources_presentation(sections) == RewriteSections(sections, {})

\* a body of at least RECOMMENDATIONS_MIN characters: the block is padded with
\* a closing sentence until it is that long; its links are site-relative
format_recommendations_section == <<Text(RECOMMENDATIONS_MIN)>>

RECURSIVE _dedupe_sources_sections(_, _)
_dedupe_sources_sections(sections, kept) ==
    IF sections = <<>> THEN kept
    ELSE LET section == Head(sections)
         IN  IF /\ IsSourcesTitle(section.title)
                /\ \E i \in 1..Len(kept) : IsSourcesTitle(kept[i].title)
             THEN _dedupe_sources_sections(Tail(sections), kept)
             ELSE _dedupe_sources_sections(Tail(sections), Append(kept, section))

\* the index of the first sources-titled section, 0 for None
TargetIndex(sections) ==
    IF \E i \in 1..Len(sections) : IsSourcesTitle(sections[i].title)
    THEN CHOOSE i \in 1..Len(sections) :
             /\ IsSourcesTitle(sections[i].title)
             /\ \A j \in 1..(i - 1) : ~IsSourcesTitle(sections[j].title)
    ELSE 0

\* mutant: further sources-titled sections are not removed
_upsert_recommendations_section_no_dedupe(sections, content) ==
    LET target_index == TargetIndex(sections)
    IN  IF target_index # 0
        THEN [sections EXCEPT ![target_index] = Section(sections[target_index].title, content)]
        ELSE Append(sections, Section(ZrodlaTitle, content))

_upsert_recommendations_section(sections, content) ==
    LET cleaned_sections == _dedupe_sources_sections(sections, <<>>)
        target_index == TargetIndex(cleaned_sections)
    IN  IF target_index # 0
        THEN [cleaned_sections EXCEPT ![target_index] =
                  Section(cleaned_sections[target_index].title, content)]
        ELSE Append(cleaned_sections, Section(ZrodlaTitle, content))

\* ArticleContent.sections and ArticleSection as model_validate checks them
SectionsValid(sections) ==
    /\ Len(sections) >= ARTICLE_MIN_SECTIONS
    /\ \A i \in 1..Len(sections) : BodyLen(sections[i].body) >= SECTION_BODY_MIN

\* _ensure_text_length(value, minimum=...): the filler sentence stands in for an
\* empty text and is appended until the text is long enough
RECURSIVE _ensure_text_length(_, _)
_ensure_text_length(text, minimum) ==
    IF text = <<>> THEN _ensure_text_length(<<Text(FILLER_LEN)>>, minimum)
    ELSE IF BodyLen(text) < minimum
         THEN _ensure_text_length(Append(text, Text(FILLER_LEN)), minimum)
         ELSE text

RECURSIVE PadSections(_)
PadSections(sanitized) ==
    IF Len(sanitized) < 4
    THEN PadSections(Append(sanitized,
             Section(SekcjaTitle, _ensure_text_length(<<>>, ENSURE_BODY_MIN))))
    ELSE sanitized

_ensure_sections(sections) ==
    PadSections([i \in 1..Len(sections) |->
        Section(sections[i].title, _ensure_text_length(sections[i].body, ENSURE_BODY_MIN))])

\* the document is returned whether or not it validates (model_construct);
\* others_ok: the fields outside article.sections pass validation
_validate_or_construct_document(pc, input, sanitized, sections, others_ok) ==
    [pc |-> pc, input |-> input, sanitized |-> sanitized, sections |-> sections,
     validated |-> others_ok /\ SectionsValid(sections)]

\* prepare_document_for_publication(db, document, ...), the sections of it
RepairPrepare ==
    /\ repair.pc = "document"
    /\ LET sanitized == apply_sources_presentation(repair.document)
           updated_sections ==
               _upsert_recommendations_section(sanitized, format_recommendations_section)
       IN  repair' = _validate_or_construct_document(
                         "prepared", repair.document, sanitized, updated_sections,
                         repair.others_ok)
    /\ UNCHANGED repair_frame

\* document_from_post(post): the stored payload when it validates, otherwise
\* the document rebuilt from the columns
document_from_post ==
    /\ repair.pc = "post"
    /\ LET sanitized_payload == apply_sources_presentation(repair.payload)
           sections == _ensure_sections(repair.body_mdx)
           sanitized_fallback == apply_sources_presentation(sections)
       IN  repair' =
               IF repair.payload # <<>> /\ repair.others_ok /\ SectionsValid(sanitized_payload)
               THEN [pc |-> "from_payload", input |-> repair.payload,
                     sanitized |-> sanitized_payload,
                     sections |-> sanitized_payload, validated |-> TRUE]
               ELSE _validate_or_construct_document(
                        "from_columns", repair.body_mdx, sections, sanitized_fallback,
                        repair.others_ok)
    /\ UNCHANGED repair_frame

\* section bodies that pass validation: two paragraphs, or one paragraph and a link
ValidBodies == {<<Text(ParagraphLen), Text(ParagraphLen)>>,
                <<Text(ParagraphLen), Md(Word, CHOOSE u \in LinkUrls : u.host = "e.com" /\ u.path = "p")>>}

SectionTitles ==
    {SekcjaTitle, ZrodlaTitle, SectionTitle("zrodla", TRUE, TRUE)}

ValidSections == {Section(t, b) : t \in SectionTitles, b \in ValidBodies}

\* the sections of a validated ArticleDocument, at most max of them
ValidDocuments(max) == UNION {[1..n -> ValidSections] : n \in ARTICLE_MIN_SECTIONS..max}

\* what a stored post holds: no payload or the sections of an earlier document,
\* and the sections its body_mdx splits into, short ones included
StoredPayloads ==
    {<<>>} \cup {[i \in 1..ARTICLE_MIN_SECTIONS |-> Section(SekcjaTitle, b)] : b \in ValidBodies}

StoredBodies ==
    UNION {[1..n -> {Section(SekcjaTitle, b) : b \in ValidBodies \cup {<<Word>>}}] : n \in 0..2}

\* the document handed to prepare_document_for_publication, or the post handed
\* to document_from_post
RepairInputs ==
    {[pc |-> "document", document |-> d, others_ok |-> ok] :
         d \in ValidDocuments(MaxSections), ok \in BOOLEAN}
    \cup {[pc |-> "post", payload |-> p, body_mdx |-> b, others_ok |-> ok] :
              p \in StoredPayloads, b \in StoredBodies, ok \in BOOLEAN}

InitRepair ==
    /\ InitWith({1}) /\ poll = IdlePoll /\ svc = IdleSvc /\ pub = IdlePub
    /\ repair \in RepairInputs
    /\ links = Idle /\ faq = Idle /\ title = Idle /\ recs = Idle /\ asr = Idle

NextRepair == RepairPrepare \/ document_from_post

SpecRepair == InitRepair /\ [][NextRepair]_vars

\* ----- FAQ: sanitize_faq and the fallback _ensure_faq ----------------------------
\* A question or an answer: its words, whether some letters are upper case,
\* whether it has blanks around or doubled between the words, and its length
\* once the blanks are normalised (0 for an empty or blank text).
FaqText(word, cased, spaced, n) == [word |-> word, cased |-> cased, spaced |-> spaced, n |-> n]

\* " ".join(value.split())
_normalize_text(value) == [value EXCEPT !.spaced = FALSE]

\* question.casefold()
casefold(value) == [value EXCEPT !.cased = FALSE]

IsEmptyText(value) == value.n = 0

\* mutant: questions are compared as written
normalized_question_exact(question) == question

\* the key under which a question counts as seen
normalized_question(question) == casefold(question)

FaqItem(question, answer) == [dict |-> TRUE, question |-> question, answer |-> answer]

\* an item of the list that is not a dict
NotDict == [dict |-> FALSE, question |-> FaqText("", FALSE, FALSE, 0),
            answer |-> FaqText("", FALSE, FALSE, 0)]

RECURSIVE SanitizeFrom(_, _)
SanitizeFrom(faq_items, seen_questions) ==
    IF faq_items = <<>> THEN <<>>
    ELSE LET item == Head(faq_items)
             question == _normalize_text(item.question)
             answer == _normalize_text(item.answer)
         IN  IF ~item.dict \/ IsEmptyText(question) \/ IsEmptyText(answer)
             THEN SanitizeFrom(Tail(faq_items), seen_questions)
             ELSE IF normalized_question(question) \in seen_questions
                  THEN SanitizeFrom(Tail(faq_items), seen_questions)
                  ELSE <<FaqItem(question, answer)>>
                           \o SanitizeFrom(Tail(faq_items),
                                  seen_questions \cup {normalized_question(question)})

sanitize_faq(faq_items) == SanitizeFrom(faq_items, {})

\* the filler sentence, and an answer with the filler appended
FillerText == FaqText("filler", TRUE, FALSE, FILLER_LEN)

\* _ensure_text_length(answer, minimum=40): the filler replaces an empty answer
\* and is appended, after a space, while the answer is too short
RECURSIVE EnsureAnswer(_)
EnsureAnswer(value) ==
    IF IsEmptyText(value) THEN FillerText
    ELSE IF value.n < FAQ_ANSWER_MIN
         THEN EnsureAnswer([_normalize_text(value) EXCEPT !.n = value.n + 1 + FILLER_LEN])
         ELSE _normalize_text(value)

\* DEFAULT_FAQ: three fixed entries
DEFAULT_FAQ ==
    << FaqItem(FaqText("default1", TRUE, FALSE, 55), FaqText("answer1", TRUE, FALSE, 153)),
       FaqItem(FaqText("default2", TRUE, FALSE, 47), FaqText("answer2", TRUE, FALSE, 159)),
       FaqItem(FaqText("default3", TRUE, FALSE, 31), FaqText("answer3", TRUE, FALSE, 126)) >>

RECURSIVE EnsureItems(_)
EnsureItems(faq_items) ==
    IF faq_items = <<>> THEN <<>>
    ELSE LET item == Head(faq_items)
             question == _normalize_text(item.question)
             answer == EnsureAnswer(item.answer)
         IN  (IF ~IsEmptyText(question) /\ ~IsEmptyText(answer)
              THEN <<FaqItem(question, answer)>> ELSE <<>>)
                 \o EnsureItems(Tail(faq_items))

\* while len(sanitized) < 1: the next default entry is appended
RECURSIVE Backfill(_, _)
Backfill(sanitized, next_default) ==
    IF Len(sanitized) < 1
    THEN Backfill(Append(sanitized, DEFAULT_FAQ[Min(next_default, Len(DEFAULT_FAQ))]),
                  next_default + 1)
    ELSE sanitized

_ensure_faq(faq_items) ==
    LET filled == Backfill(EnsureItems(faq_items), 1)
    IN  SubSeq(filled, 1, Min(3, Len(filled)))

\* sanitize_faq(faq_items)
SanitizeFaq ==
    /\ faq.pc = "sanitize"
    /\ faq' = [pc |-> "sanitized", input |-> faq.input, result |-> sanitize_faq(faq.input)]
    /\ UNCHANGED faq_frame

\* _ensure_faq(post.faq)
EnsureFaq ==
    /\ faq.pc = "ensure"
    /\ faq' = [pc |-> "ensured", input |-> faq.input, result |-> _ensure_faq(faq.input)]
    /\ UNCHANGED faq_frame

FaqQuestions ==
    {FaqText("", FALSE, TRUE, 0), FaqText("q1", FALSE, FALSE, 12),
     FaqText("q1", TRUE, TRUE, 12), FaqText("q2", FALSE, FALSE, 12)}

FaqAnswers == {FaqText("", FALSE, TRUE, 0), FaqText("a", TRUE, TRUE, 8)}

FaqItems == {FaqItem(q, a) : q \in FaqQuestions, a \in FaqAnswers} \cup {NotDict}

FaqLists(max) == UNION {[1..n -> FaqItems] : n \in 0..max}

InitFaq ==
    /\ InitWith({1}) /\ poll = IdlePoll /\ svc = IdleSvc /\ pub = IdlePub
    /\ faq \in {[pc |-> op, input |-> items] : op \in {"sanitize", "ensure"}, items \in FaqLists(MaxFaq)}
    /\ links = Idle /\ repair = Idle /\ title = Idle /\ recs = Idle /\ asr = Idle

NextFaq == SanitizeFaq \/ EnsureFaq

SpecFaq == InitFaq /\ [][NextFaq]_vars

\* ----- title trimming --------------------------------------------------------------
\* a title is a sequence of characters: a letter, a space or a tab
TitleChars == {"a", " ", "TAB"}
Whitespace == {" ", "TAB"}

\* str.rstrip()
RECURSIVE rstrip(_)
rstrip(value) ==
    IF value # <<>> /\ value[Len(value)] \in Whitespace
    THEN rstrip(SubSeq(value, 1, Len(value) - 1))
    ELSE value

\* value[:n]
Prefix(value, n) == SubSeq(value, 1, Min(n, Len(value)))

\* str.rfind(" "): the index, counted from 0, of the last space, -1 without one
rfind_space(value) ==
    IF \E i \in 1..Len(value) : value[i] = " "
    THEN (CHOOSE i \in 1..Len(value) :
              value[i] = " " /\ \A j \in (i + 1)..Len(value) : value[j] # " ") - 1
    ELSE -1

_trim_title_value(value, max_len) ==
    IF Len(value) <= max_len THEN value
    ELSE LET trimmed == rstrip(Prefix(value, max_len))
             last_space == rfind_space(trimmed)
             candidate == rstrip(Prefix(trimmed, last_space))
         IN  IF last_space > 0 /\ candidate # <<>> THEN candidate ELSE trimmed

\* normalize_title_fields trims seo.title and article.headline in this way
TrimTitle ==
    /\ title.pc = "input"
    /\ title' = [title EXCEPT !.pc = "trimmed",
                              !.result = _trim_title_value(title.value, title.max_len)]
    /\ UNCHANGED title_frame

TitleValues(max) == UNION {[1..n -> TitleChars] : n \in 0..max}

\* the limits tried: short ones, so that titles of a few words overflow
TitleLimits == {3, 4}

InitTitle ==
    /\ InitWith({1}) /\ poll = IdlePoll /\ svc = IdleSvc /\ pub = IdlePub
    /\ title \in {[pc |-> "input", value |-> v, max_len |-> m, result |-> <<>>] :
                      v \in TitleValues(MaxTitleLen), m \in TitleLimits}
    /\ links = Idle /\ repair = Idle /\ faq = Idle /\ recs = Idle /\ asr = Idle

NextTitle == TrimTitle

SpecTitle == InitTitle /\ [][NextTitle]_vars

\* ----- internal recommendations ------------------------------------------------------
\* The corpus gives each slug the section of its post, or Absent when no post
\* has that slug (Post.slug is unique); the higher slug is the more recently
\* updated post.  Slug 0 is a document that is not stored yet.
CorpusSlugs == 1..MaxCorpus
Absent == "absent"
CorpusSections == {"Zdrowie", "Ajurweda"}

\* _build_recommendation_item(post), the fields that identify it
RecItem(corpus, slug) == [slug |-> slug, section |-> corpus[slug]]

RECURSIVE _select_unique_posts(_, _, _, _)
_select_unique_posts(corpus, rows, seen, limit) ==
    IF rows = <<>> \/ limit <= 0 THEN <<>>
    ELSE IF Head(rows) \in seen
         THEN _select_unique_posts(corpus, Tail(rows), seen, limit)
         ELSE <<RecItem(corpus, Head(rows))>>
                  \o _select_unique_posts(corpus, Tail(rows),
                                          seen \cup {Head(rows)}, limit - 1)

\* the slugs of a list of items
SlugsOf(items) == {items[i].slug : i \in 1..Len(items)}

\* the slugs of S in descending order: order_by(Post.updated_at.desc())
RECURSIVE Descending(_)
Descending(S) ==
    IF S = {} THEN <<>>
    ELSE LET top == CHOOSE k \in S : \A m \in S : m <= k
         IN  <<top>> \o Descending(S \ {top})

\* the same-section query: other posts of the section, newest first, at most 8
SameSectionPosts(corpus, current_slug, current_section) ==
    LET rows == Descending({k \in CorpusSlugs :
                                k # current_slug /\ corpus[k] = current_section})
    IN  SubSeq(rows, 1, Min(SAME_SECTION_QUERY_LIMIT, Len(rows)))

\* the posts of the other sections
OtherSection(corpus, current_slug, current_section) ==
    {k \in CorpusSlugs :
         k # current_slug /\ corpus[k] # Absent /\ corpus[k] # current_section}

\* order_by(func.random()).limit(4): any arrangement of any 4 of them
RandomSamples(S) ==
    LET n == Min(OTHER_SECTION_QUERY_LIMIT, Cardinality(S))
    IN  {q \in [1..n -> S] : \A i, j \in 1..n : i # j => q[i] # q[j]}

\* mutant: the slugs selected so far are not carried from one selection to the next
Recommend_no_seen(corpus, current_slug, same_section_posts, other_section_posts) ==
    LET first == _select_unique_posts(corpus, same_section_posts, {current_slug},
                                      max_same_section)
        extra == IF Len(first) < min_same_section
                 THEN _select_unique_posts(corpus, other_section_posts, {current_slug},
                                           min_same_section - Len(first))
                 ELSE <<>>
        second == first \o extra
        cross_needed == total_limit - Len(second)
        cross == IF cross_needed > 0
                 THEN _select_unique_posts(corpus, other_section_posts, {current_slug},
                                           Max(1, cross_needed))
                 ELSE <<>>
        recommendations == second \o cross
    IN  SubSeq(recommendations, 1, Min(total_limit, Len(recommendations)))

Recommend(corpus, current_slug, same_section_posts, other_section_posts) ==
    LET first == _select_unique_posts(corpus, same_section_posts, {current_slug},
                                      max_same_section)
        seen1 == {current_slug} \cup SlugsOf(first)
        extra == IF Len(first) < min_same_section
                 THEN _select_unique_posts(corpus, other_section_posts, seen1,
                                           min_same_section - Len(first))
                 ELSE <<>>
        second == first \o extra
        seen2 == seen1 \cup SlugsOf(extra)
        cross_needed == total_limit - Len(second)
        cross == IF cross_needed > 0
                 THEN _select_unique_posts(corpus, other_section_posts, seen2,
                                           Max(1, cross_needed))
                 ELSE <<>>
        recommendations == second \o cross
    IN  SubSeq(recommendations, 1, Min(total_limit, Len(recommendations)))

\* build_internal_recommendations(db, current_slug=..., current_section=...)
build_internal_recommendations ==
    /\ recs.pc = "corpus"
    /\ \E other_section_posts \in
              RandomSamples(OtherSection(recs.corpus, recs.current_slug, recs.current_section)) :
           recs' = [recs EXCEPT
                       !.pc = "built",
                       !.result = Recommend(recs.corpus, recs.current_slug,
                                      SameSectionPosts(recs.corpus, recs.current_slug,
                                                       recs.current_section),
                                      other_section_posts)]
    /\ UNCHANGED recs_frame

InitRecs ==
    /\ InitWith({1}) /\ poll = IdlePoll /\ svc = IdleSvc /\ pub = IdlePub
    /\ recs \in {[pc |-> "corpus", corpus |-> c, current_slug |-> s,
                  current_section |-> "Zdrowie", result |-> <<>>] :
                     c \in [CorpusSlugs -> CorpusSections \cup {Absent}], s \in {0, 1}}
    /\ links = Idle /\ repair = Idle /\ faq = Idle /\ title = Idle /\ asr = Idle

NextRecs == build_internal_recommendations

SpecRecs == InitRecs /\ [][NextRecs]_vars

\* ===== asr_transcribe_raw ======================================================
\* The ASR fallback of the transcript provider: two endpoint variants, each a
\* start request followed by polls of the job. Time in ticks of half a second;
\* asr.clock is time.monotonic() minus the instant the operation started.

\* 15.0 s
_ASR_REQUEST_TIMEOUT == 30
\* max(1.0, asr_total_timeout)
MinAsrBudget == 2
\* asr_poll_interval = 5.0
ASR_POLL_INTERVAL == 10

\* flows: the start paths, in the order of the tuple
Flows == <<"/transcript", "/youtube/asr">>

\* max(1, int(budget // max(interval, 0.5)))
DerivedAttempts(budget) == Max(1, budget \div Max(ASR_POLL_INTERVAL, 1))

\* a JSON body: whether _normalise_text finds a text in it, whether it has a
\* truthy "job_id" or "id", what its "job" field is, and its status
AsrBodies ==
    [text : BOOLEAN, id : BOOLEAN, job : {"absent", "with_id", "no_id", "null"},
     status : {NoStatus, Lit("processing"), Lit("failed"),
               [word |-> "error", upper |-> TRUE]}]
NoBody == [text |-> FALSE, id |-> FALSE, job |-> "absent", status |-> NoStatus]

\* what one ASR request meets: a transport failure or a status code and body
AsrResponses ==
    [net : {"timeout", "http_error"}, code : {0}, body : {NoBody}]
    \cup [net : {"ok"}, code : {404, 500}, body : {NoBody}]
    \cup [net : {"ok"}, code : {200}, body : AsrBodies]

\* data.get("job_id") or data.get("id") or data.get("job", {}).get("id"):
\* the last call is made on whatever the "job" field holds
_extract_job_id(body) ==
    IF body.id THEN "id"
    ELSE CASE body.job = "with_id" -> "id"
           [] body.job = "null" -> "AttributeError"
           [] OTHER -> None

\* _normalise_text(payload_data if payload_data is not None else response.text)
_normalise_text(body) == IF body.text THEN "text" ELSE None

\* status and status.lower() in {"failed", "error"}
AsrFailed(body) == lower(body.status) \in {Lit("failed"), Lit("error")}

StartAsr(asr_total_timeout) ==
    [pc |-> "flow", flow |-> 1, clock |-> 0,
     budget |-> Max(MinAsrBudget, asr_total_timeout),
     attempts |-> DerivedAttempts(Max(MinAsrBudget, asr_total_timeout)),
     attempt |-> 0, timeout |-> 0,
     started |-> <<>>, start_failed |-> {}, polled |-> {}, text_seen |-> FALSE,
     outcome |-> [result |-> "", value |-> None]]

\* the operation ends: it returns or raises
AsrEnded(a, result, value) ==
    [a EXCEPT !.pc = "ended", !.outcome = [result |-> result, value |-> value]]

\* continue, or the end of one pass of the for loop over flows
NextFlow(a) == [a EXCEPT !.pc = "flow", !.flow = @ + 1, !.attempt = 0]

\* head of "for start_path, poll_path, payload in flows": _remaining_timeout
AsrFlowHead ==
    /\ asr.pc = "flow"
    /\ LET remaining == asr.budget - asr.clock
       IN  asr' = IF asr.flow > Len(Flows) THEN AsrEnded(asr, "return", None)
                  ELSE IF remaining <= 0 THEN AsrEnded(asr, "return", None)
                  ELSE [asr EXCEPT !.pc = "start",
                                   !.timeout = Min(_ASR_REQUEST_TIMEOUT, remaining)]
    /\ UNCHANGED asr_frame

\* the POST of the start path and the branches on its answer
AsrStart ==
    /\ asr.pc = "start"
    /\ \E d \in Durations(asr.timeout), r \in AsrResponses :
         LET a == [asr EXCEPT !.clock = @ + d, !.started = Append(@, asr.flow)]
             failed == [a EXCEPT !.start_failed = @ \cup {asr.flow}]
         IN  /\ r.net = "timeout" => d = asr.timeout
             /\ asr' =
                  IF r.net # "ok" THEN NextFlow(failed)
                  ELSE IF r.code = 404 THEN NextFlow(failed)
                  ELSE IF r.code \div 100 # 2 THEN NextFlow(failed)
                  ELSE IF _normalise_text(r.body) # None
                  THEN AsrEnded([a EXCEPT !.text_seen = TRUE], "return", "text")
                  ELSE IF _extract_job_id(r.body) = "AttributeError"
                  THEN AsrEnded(failed, "raise", "AttributeError")
                  ELSE IF _extract_job_id(r.body) = None THEN NextFlow(failed)
                  ELSE IF AsrFailed(r.body) THEN NextFlow(a)
                  ELSE [a EXCEPT !.pc = "poll_head", !.attempt = 0]
    /\ UNCHANGED asr_frame

\* _poll_asr_job, head of "for _ in range(self._asr_poll_attempts)"
AsrPollHead ==
    /\ asr.pc = "poll_head"
    /\ LET remaining == asr.budget - asr.clock
       IN  asr' = IF asr.attempt >= asr.attempts THEN NextFlow(asr)
                  ELSE IF remaining <= 0 THEN NextFlow(asr)
                  ELSE [asr EXCEPT !.pc = "poll",
                                   !.timeout = Min(_ASR_REQUEST_TIMEOUT, remaining)]
    /\ UNCHANGED asr_frame

\* _poll_asr_job, the GET of the job and the branches on its answer
AsrPoll ==
    /\ asr.pc = "poll"
    /\ \E d \in Durations(asr.timeout), r \in AsrResponses :
         LET a == [asr EXCEPT !.clock = @ + d, !.polled = @ \cup {asr.flow}]
         IN  /\ r.net = "timeout" => d = asr.timeout
             /\ asr' =
                  IF r.net # "ok" THEN NextFlow(a)
                  ELSE IF r.code \div 100 # 2 THEN NextFlow(a)
                  ELSE IF _normalise_text(r.body) # None
                  THEN AsrEnded([a EXCEPT !.text_seen = TRUE], "return", "text")
                  ELSE IF AsrFailed(r.body) THEN NextFlow(a)
                  ELSE IF a.budget - a.clock <= 0 THEN NextFlow(a)
                  ELSE [a EXCEPT !.pc = "poll_sleep"]
    /\ UNCHANGED asr_frame

\* time.sleep(min(self._asr_poll_interval, max(0.0, remaining)))
AsrPollSleep ==
    /\ asr.pc = "poll_sleep"
    /\ asr' = [asr EXCEPT !.clock = @ + Min(ASR_POLL_INTERVAL, Max(0, asr.budget - asr.clock)),
                          !.attempt = @ + 1, !.pc = "poll_head"]
    /\ UNCHANGED asr_frame

\* asr_total_timeout of the client, in ticks
AsrTotalTimeouts == {1, SmallBudget, LargeBudget}

InitAsr ==
    /\ InitWith({1}) /\ poll = IdlePoll /\ svc = IdleSvc /\ pub = IdlePub
    /\ links = Idle /\ repair = Idle /\ faq = Idle /\ title = Idle /\ recs = Idle
    /\ asr \in {StartAsr(t) : t \in AsrTotalTimeouts}

NextAsr == AsrFlowHead \/ AsrStart \/ AsrPollHead \/ AsrPoll \/ AsrPollSleep

SpecAsr == InitAsr /\ [][NextAsr]_vars

\* ----- properties ----------------------------------------------------------
LoopPcs == {"check_stop", "next_pending", "claim", "fetch", "generate", "finalise",
            "check_stop_after"}

\* thread t is executing the claim-and-process loop of _run_loop
InLoop(t) == wk[t].pc \in LoopPcs

PostIds == 1..Len(posts)

\* C1: a job's status only moves pending -> running -> {done, skipped,
\* failed}; only the claim of _next_pending takes a job out of pending, and a
\* job that is done, skipped or failed is never claimed again and keeps its
\* status (rows are never removed, new rows are pending).
C1_StatusLifecycle ==
    [][ /\ Len(jobs') >= Len(jobs)
        /\ \A j \in 1..Len(jobs') : j > Len(jobs) => jobs'[j].status = "pending"
        /\ \A j \in JobIds :
            /\ jobs[j].status = "pending" => jobs'[j].status \in {"pending", "running"}
            /\ (jobs[j].status = "pending" /\ jobs'[j].status = "running")
                  => \E t \in Threads : /\ wk[t].pc = "claim" /\ wk[t].job = j
                                        /\ wk'[t].pc = "fetch"
            /\ jobs[j].status = "running"
                  => jobs'[j].status \in {"running"} \cup TerminalStatuses
            /\ jobs[j].status \in TerminalStatuses
                  => /\ jobs'[j].status = jobs[j].status
                     /\ hist'[j].claimed_by = hist[j].claimed_by
      ]_vars

\* witness of C1: after a restart of the worker, one job is done and another
\* skipped or failed while a worker is in its loop again
C1_Witness ==
    /\ \E j, k \in JobIds : jobs[j].status = "done" /\ jobs[k].status \in {"skipped", "failed"}
    /\ \E t, u \in Threads : wk[t].pc = "exited" /\ InLoop(u)

\* C2: every claimed job ends in a terminal status with finished_at set,
\* whatever step fails; no job is left running once the worker loop that
\* claimed it has exited.
C2_ClaimedJobTerminates ==
    \A j \in JobIds :
        /\ jobs[j].status = "running" => \E t \in Threads : InLoop(t) /\ wk[t].job = j
        /\ jobs[j].status \in TerminalStatuses => jobs[j].finished_at # NULL

\* C3: at most one job has status running for a single GenRunner
C3_AtMostOneRunning ==
    Cardinality({j \in JobIds : jobs[j].status = "running"}) <= 1

C5_FetchFailureMarksFailed ==
    \A j \in JobIds :
        (hist[j].fetch # <<>>
            /\ hist[j].fetch[1].kind = "transport")
        => /\ jobs[j].status = "failed"
           /\ jobs[j].error = Truncate(hist[j].fetch[1].msg, ErrorLimit)

\* C6: a transcript shorter than MIN_TRANSCRIPT_CHARS ends the job skipped
\* with article_id null, finished_at set and the error "no transcript text",
\* and the writer is never invoked for the job.
C6_ShortTranscriptSkipped ==
    \A j \in JobIds :
        (hist[j].fetch # <<>>
            /\ hist[j].fetch[1].kind = "content"
            /\ hist[j].fetch[1].chars < MIN_TRANSCRIPT_CHARS)
        => /\ jobs[j].status = "skipped"
           /\ jobs[j].article_id = NULL
           /\ jobs[j].finished_at # NULL
           /\ jobs[j].error = <<"no transcript text", 18>>
           /\ hist[j].writer_calls = 0
           /\ hist[j].writer = <<>>

\* witness of C6: a job was processed whose transcript had 50 characters
C6_Witness ==
    \E j \in JobIds :
        /\ hist[j].fetch # <<>>
        /\ hist[j].fetch[1].kind = "content"
        /\ hist[j].fetch[1].chars = ShortChars
        /\ jobs[j].status = "skipped"

\* C7: with two runner instances no job is claimed (set to running and
\* processed) by both
C7_NoDoubleClaim ==
    \A j \in JobIds : Cardinality(hist[j].claimed_by) <= 1

\* C8: no state shows a committed Post whose owning job is not done with
\* article_id equal to the Post's id
C8_PostAndDoneTogether ==
    \A p \in PostIds :
        /\ jobs[posts[p].job].status = "done"
        /\ jobs[posts[p].job].article_id = p

\* threads whose loop starts in this step
NewThreads == {t \in Threads : wk[t].pc = "unborn" /\ wk'[t].pc # "unborn"}

\* C9: start() returns False and changes nothing while the runner is on and
\* otherwise spawns exactly one worker; at most one worker thread of a
\* GenRunner is in the claim-and-process loop at any time.
C9_SingleWorker ==
    /\ [](\A r \in runners : Cardinality({t \in Threads : wk[t].runner = r /\ InLoop(t)}) <= 1)
    /\ [][ /\ Cardinality(NewThreads) <= 1
           /\ \A t \in NewThreads :
                /\ ~runner_on[wk'[t].runner]
                /\ runner_on'[wk'[t].runner]
                /\ wk'[t].pc = "check_stop"
                /\ last_start' = <<wk'[t].runner, TRUE>>
           /\ last_start' # last_start
                => IF runner_on[last_start'[1]]
                   THEN /\ last_start'[2] = FALSE
                        /\ UNCHANGED <<jobs, posts, runner_on, stop_event, thread, wk>>
                   ELSE /\ last_start'[2] = TRUE
                        /\ Cardinality(NewThreads) = 1
         ]_vars

\* witness of C9: a worker has exited, a second one is in the loop and a
\* start() call made meanwhile returned False
C9_Witness ==
    /\ \E t, u \in Threads : wk[t].pc = "exited" /\ InLoop(u)
    /\ last_start = <<1, FALSE>>

\* C10: once stop() has returned True (the stop event is set) no job leaves
\* pending, and when the loop has exited the job that was in progress is in a
\* terminal status and is_on() is false.
C10_NoClaimAfterStop ==
    /\ [][\A r \in runners : stop_event[r]
             => \A j \in JobIds : jobs[j].status = "pending" => jobs'[j].status = "pending"]_vars
    /\ [](\A t \in Threads : wk[t].pc = "exited" /\ thread[wk[t].runner] = 0
             => /\ ~runner_on[wk[t].runner]
                /\ \A j \in JobIds : t \in hist[j].claimed_by
                                        => jobs[j].status \in TerminalStatuses)

\* C11: jobs are processed in creation order: the job a claim takes is the
\* pending job with the smallest id, and every job with a smaller id was
\* claimed and finished before.
C11_FifoOrder ==
    [][\A j \in JobIds :
          (jobs[j].status = "pending" /\ jobs'[j].status = "running")
          => \A i \in JobIds : i < j => jobs[i].status \in TerminalStatuses]_vars

\* C12: a worker that finds no pending job leaves the loop at once and
\* is_on() becomes false when it has exited; while no worker is in the loop
\* pending jobs stay pending; every worker loop eventually exits.
C12_LoopExits ==
    /\ [][\A t \in Threads :
            /\ (wk[t].pc = "next_pending" /\ FirstPending = 0 /\ wk'[t] # wk[t])
                  => wk'[t].pc = "mark_done"
            /\ (wk[t].pc # "exited" /\ wk'[t].pc = "exited")
                  => ~runner_on'[wk[t].runner]]_vars
    /\ [][(\A t \in Threads : ~InLoop(t))
            => \A j \in JobIds : jobs[j].status = "pending" => jobs'[j].status = "pending"]_vars
    /\ []<>(\A t \in Threads : ~InLoop(t))

\* witness of C12: the worker has exited on an empty queue, the runner is
\* off and a job enqueued afterwards is pending
C12_Witness ==
    /\ \E t \in Threads : wk[t].pc = "exited"
    /\ \A t \in Threads : ~InLoop(t) /\ wk[t].pc # "mark_done"
    /\ ~runner_on[1]
    /\ \A j \in JobIds : hist[j].claimed_by = {}
    /\ \E j \in JobIds : jobs[j].status = "pending"

\* C13: generation is idempotent per source key: of the queued jobs whose
\* URLs have the same source key only the first fetches a transcript and
\* creates a Post, so no two Posts come from the same source key.
C13_OnePostPerSourceKey ==
    /\ \A p, q \in PostIds :
          _build_source_key(posts[p].source_url) = _build_source_key(posts[q].source_url)
              => p = q
    /\ \A i, j \in JobIds :
          (/\ i < j
           /\ _build_source_key(jobs[i].url) = _build_source_key(jobs[j].url)
           /\ jobs[i].status = "done")
              => hist[j].fetch = <<>> /\ hist[j].writer_calls = 0

\* C14: every URL has at most one job that is pending or running, whatever
\* plan_queue calls and worker steps happened.
C14_OneActiveJobPerUrl ==
    \A i, j \in JobIds :
        (/\ jobs[i].url = jobs[j].url
         /\ jobs[i].status \in {"pending", "running"}
         /\ jobs[j].status \in {"pending", "running"}) => i = j

\* C15: a poller starts no status request once the elapsed time has reached
\* the budget, and an operation that ended without having seen a terminal
\* status raised; it raised the timeout failure when every request was answered.
C15_TimeoutWhenNoTerminal ==
    /\ ~poll.late_request
    /\ (poll.pc = "ended" /\ poll.kind # "none" /\ ~poll.terminal_seen)
          => /\ poll.outcome.result = "raise"
             /\ ~poll.unanswered => poll.outcome.detail = "timeout"

\* C16: once a response carried a failure status (failed, error, cancelled,
\* in any letter case) the operation has ended at that response with the
\* typed failure that carries the upstream message, not the timeout failure.
C16_FailureStatusRaises ==
    poll.failure_seen
        => /\ poll.pc = "ended"
           /\ poll.outcome.result = "raise"
           /\ poll.outcome.detail = "upstream"

\* C17: a polling operation never lasts longer than its total budget plus
\* one poll-request timeout.
C17_ElapsedBound ==
    poll.clock <= poll.budget + poll.request_timeout

C19_UniqueSlug ==
    pub.pc = "prepared"
        => /\ pub.final \notin pub.existing
           /\ pub.desired \notin pub.existing => pub.final = pub.desired
           /\ pub.desired \in pub.existing
                 => \E k \in 2..(MaxPosts + 1) :
                       /\ pub.final = Candidate(pub.desired, k)
                       /\ \A i \in 2..(k - 1) : Candidate(pub.desired, i) \in pub.existing
           /\ ensure_unique_slug(pub.existing, pub.final) = pub.final

C19_Witness ==
    /\ pub.pc = "prepared"
    /\ pub.desired \in pub.existing
    /\ Candidate(pub.desired, 2) \in pub.existing
    /\ pub.final = Candidate(pub.desired, 3)

\* C20: the final slug of a prepared document is URL-safe and has between 3
\* and 200 characters.
C20_SlugLength ==
    pub.pc = "prepared" => SlugPattern(pub.final)

\* ----- C21..C30 ---------------------------------------------------------------
\* how many of the first n URLs normalise to url
RECURSIVE CountOf(_, _, _)
CountOf(urls, n, url) ==
    IF n = 0 THEN 0
    ELSE CountOf(urls, n - 1, url) + (IF normalize_url(urls[n]) = url THEN 1 ELSE 0)

\* C21: over the section bodies in order, the first occurrence of every
\* normalised URL stays as it was written and every later occurrence of the
\* same URL becomes text in which extract_urls finds no URL, so that each URL
\* that occurred more than once is a hyperlink exactly once afterwards.
C21_SingleHyperlinkPerUrl ==
    links.pc = "rewritten" =>
        LET before == Flatten(links.sections)
            after == Flatten(links.sanitized_sections)
            urls == extract_urls(before)
            urls_after == extract_urls(after)
        IN  /\ Len(after) = Len(before)
            /\ \A i \in 1..Len(before) :
                   IsMatch(before[i]) =>
                       IF \E j \in 1..(i - 1) :
                              /\ IsMatch(before[j])
                              /\ normalize_url(before[j].url) = normalize_url(before[i].url)
                       THEN extract_urls(<<after[i]>>) = <<>>
                       ELSE after[i] = before[i]
            /\ \A k \in 1..Len(urls) :
                   CountOf(urls, Len(urls), normalize_url(urls[k])) > 1
                       => CountOf(urls_after, Len(urls_after), normalize_url(urls[k])) = 1

ReturnedPcs == {"prepared", "from_payload", "from_columns"}

\* C22: a document returned by prepare_document_for_publication or by
\* document_from_post has at least ARTICLE_MIN_SECTIONS sections and every
\* section body has at least SECTION_BODY_MIN characters.
C22_SectionFloors ==
    repair.pc \in ReturnedPcs =>
        /\ Len(repair.sections) >= ARTICLE_MIN_SECTIONS
        /\ \A i \in 1..Len(repair.sections) :
               BodyLen(repair.sections[i].body) >= SECTION_BODY_MIN

IsOrdinary(section) == ~IsSourcesTitle(section.title)

\* C29: after prepare_document_for_publication exactly one section has a
\* sources title and its body is the recommendations block; the first sources
\* section of the document is replaced where it stood under its own title,
\* further ones are removed, a new one is appended when there was none, the
\* other sections stay as they were, and a second upsert changes nothing.
C29_SingleSourcesSection ==
    repair.pc = "prepared" =>
        LET content == format_recommendations_section
            before == repair.sanitized
            after == repair.sections
            k == TargetIndex(before)
        IN  /\ Cardinality({i \in 1..Len(after) : IsSourcesTitle(after[i].title)}) = 1
            /\ \A i \in 1..Len(after) :
                   IsSourcesTitle(after[i].title) => after[i].body = content
            /\ SelectSeq(after, IsOrdinary) = SelectSeq(before, IsOrdinary)
            /\ IF k # 0
               THEN /\ Len(after) >= k
                    /\ after[k] = Section(before[k].title, content)
               ELSE after = Append(before, Section(ZrodlaTitle, content))
            /\ _upsert_recommendations_section(after, content) = after

\* a document with several sources sections was prepared: one replaced, the
\* others removed
C29_Witness ==
    /\ repair.pc = "prepared"
    /\ TargetIndex(repair.sanitized) # 0
    /\ Len(repair.sections) < Len(repair.sanitized)

\* entry i of the input has a question and an answer once blanks are normalised
FaqUsable(i) ==
    /\ faq.input[i].dict
    /\ ~IsEmptyText(_normalize_text(faq.input[i].question))
    /\ ~IsEmptyText(_normalize_text(faq.input[i].answer))

\* entry i is usable and no usable entry before it asks the same question
FaqFirst(i) ==
    /\ FaqUsable(i)
    /\ \A j \in 1..(i - 1) :
           FaqUsable(j) => casefold(_normalize_text(faq.input[j].question))
                               # casefold(_normalize_text(faq.input[i].question))

RECURSIVE FaqExpected(_)
FaqExpected(n) ==
    IF n = 0 THEN <<>>
    ELSE FaqExpected(n - 1)
             \o (IF FaqFirst(n)
                 THEN <<FaqItem(_normalize_text(faq.input[n].question),
                                _normalize_text(faq.input[n].answer))>>
                 ELSE <<>>)

\* C23: sanitize_faq returns, in input order and with blanks normalised, the
\* entries that have a question and an answer, the first for each case-folded
\* question; no two questions of the result are equal case-insensitively, the
\* result is no longer than the input and sanitising it again changes nothing.
C23_SanitizeFaq ==
    faq.pc = "sanitized" =>
        /\ faq.result = FaqExpected(Len(faq.input))
        /\ \A i, j \in 1..Len(faq.result) :
               i # j => casefold(faq.result[i].question) # casefold(faq.result[j].question)
        /\ Len(faq.result) <= Len(faq.input)
        /\ sanitize_faq(faq.result) = faq.result

\* a list was sanitised in which a question is repeated in another case and an
\* entry is blank: both were dropped and two entries remain
C23_Witness ==
    /\ faq.pc = "sanitized"
    /\ Len(faq.result) = 2
    /\ \E i \in 1..Len(faq.input) : FaqUsable(i) /\ ~FaqFirst(i)
    /\ \E i \in 1..Len(faq.input) : faq.input[i].dict /\ ~FaqUsable(i)

\* C26: _ensure_faq returns between ARTICLE_FAQ_MIN and ARTICLE_FAQ_MAX entries
\* for every input list, each with a non-empty question and answer.
C26_FallbackFaqBounds ==
    faq.pc = "ensured" =>
        /\ Len(faq.result) >= ARTICLE_FAQ_MIN
        /\ Len(faq.result) <= ARTICLE_FAQ_MAX
        /\ \A i \in 1..Len(faq.result) :
               ~IsEmptyText(faq.result[i].question) /\ ~IsEmptyText(faq.result[i].answer)

\* the lengths k <= max_len at which a word of the title ends: character k is
\* not whitespace and character k + 1 is
WordEnds(value, max_len) ==
    {k \in 1..Min(max_len, Len(value) - 1) :
         value[k] \notin Whitespace /\ value[k + 1] \in Whitespace}

MaxOf(S) == CHOOSE k \in S : \A m \in S : m <= k

\* C24: a title of at most max_len characters is returned unchanged; a longer
\* one is cut to its longest prefix that ends where a word ends at or before
\* position max_len, and is cut at max_len characters only when its first
\* max_len characters hold no whitespace; the result never exceeds max_len.
C24_TrimAtWordBoundary ==
    title.pc = "trimmed" =>
        LET value == title.value
            max_len == title.max_len
        IN  /\ Len(title.result) <= max_len
            /\ Len(value) <= max_len => title.result = value
            /\ Len(value) > max_len =>
                   /\ WordEnds(value, max_len) # {}
                          => title.result = SubSeq(value, 1, MaxOf(WordEnds(value, max_len)))
                   /\ (\A i \in 1..max_len : value[i] \notin Whitespace)
                          => title.result = SubSeq(value, 1, max_len)

\* the other posts of the current section
SameAvailable ==
    {k \in CorpusSlugs : k # recs.current_slug /\ recs.corpus[k] = recs.current_section}

SameChosen == {i \in 1..Len(recs.result) : recs.result[i].section = recs.current_section}

\* C25: the recommendations are at most total_limit posts of the corpus, never
\* the current document and never a slug twice; at least min_same_section of
\* them are of the current section when that many other posts of it exist;
\* posts of other sections come after them and take only the places that the
\* same-section posts, up to max_same_section of them, leave free.
C25_Recommendations ==
    recs.pc = "built" =>
        LET result == recs.result
            same == Cardinality(SameChosen)
        IN  /\ Len(result) <= total_limit
            /\ \A i \in 1..Len(result) :
                   /\ result[i].slug # recs.current_slug
                   /\ result[i].slug \in CorpusSlugs
                   /\ recs.corpus[result[i].slug] = result[i].section
                   /\ result[i].section # Absent
            /\ \A i, j \in 1..Len(result) : i # j => result[i].slug # result[j].slug
            /\ Cardinality(SameAvailable) >= min_same_section => same >= min_same_section
            /\ same = Min(max_same_section, Cardinality(SameAvailable))
            /\ \A i \in SameChosen : \A j \in 1..Len(result) : j \notin SameChosen => i < j

\* three posts of the section and more posts of other sections than places
\* left: the list is full, three of the section first, one other after them
C25_Witness ==
    /\ recs.pc = "built"
    /\ Len(recs.result) = total_limit
    /\ Cardinality(SameChosen) = max_same_section
    /\ Cardinality(OtherSection(recs.corpus, recs.current_slug, recs.current_section)) >= 2
\* C27: a job that is pending when a start() call returns is eventually
\* claimed by a worker, unless stop() is called afterwards
C27_PendingAtStartIsClaimed ==
    \A j \in 1..MaxJobs :
        (j \in awaited.jobs)
            ~> (j \notin awaited.jobs \/ jobs[j].status # "pending")

\* C28: _poll_transcript_job ends as a success only at a response whose
\* status is completed or which has no status field and carries content; a
\* response with any other status never ends it as a success, content or not.
C28_SuccessOnlyOnCompleted ==
    (poll.kind = "transcript" /\ poll.pc = "ended" /\ poll.outcome.result = "return")
        => poll.success_seen


\* C30: asr_transcribe_raw sends its start requests in the order of the
\* variants; it never raises; the first non-empty text obtained ends it with
\* that text; and it returns None only after every variant was tried and
\* failed or when the total ASR budget is used up, so a first variant whose
\* start request failed is followed by the second one while budget remains.
C30_AsrFallback ==
    /\ asr.started \in {<<>>, <<1>>, <<1, 2>>}
    /\ asr.pc = "ended" => asr.outcome.result = "return"
    /\ asr.text_seen
          => asr.pc = "ended" /\ asr.outcome = [result |-> "return", value |-> "text"]
    /\ (asr.pc = "ended" /\ asr.outcome.value # "text")
          => \/ asr.started = <<1, 2>>
             \/ asr.clock >= asr.budget
====
